---- MODULE Spec2Model ----
(***************************************************************************)
(* A model of the HuntStand exporter (src/src/huntstand_exporter): the     *)
(* identifier safety predicate and the guarded fetch functions, hunt-area  *)
(* discovery with its profile fallback, the login fallback, the per-area   *)
(* aggregation, the asset endpoint prober and the membership matrix pivot. *)
(*                                                                         *)
(* Python values are tagged records: None is Null, an int is Int(n), a str *)
(* is Str(s) with s a sequence of one-character strings, a list is         *)
(* L(items) and a dict is D(kv) with kv the sequence of its key/value      *)
(* pairs in insertion order.  The HTTP transport is the environment: every *)
(* request's outcome is chosen from a small set of outcomes.               *)
(***************************************************************************)
EXTENDS Naturals, Sequences, FiniteSets

VARIABLES
    op,                     \* the operation that ran last ("none" at start)
    arg,                    \* its inputs
    http,                   \* the requests it issued, in order
    ret,                    \* what it returned, or that it raised
    cookies,                \* the session's cookie jar ("" for no cookie)
    ACTIVE_ASSET_ENDPOINTS, \* exporter.py's module-level active endpoint list
    files,                  \* the files written: a set of [path, content]
    pc,                     \* main: the statement it is at
    args,                   \* main: command line and environment of the run
    verify,                 \* main: session.verify
    normalized_clubs,       \* main: the area descriptors to process
    main_rows,              \* main: all_rows, the rows aggregated so far
    main_assets,            \* main: all_assets, the asset rows aggregated so far
    main_summary,           \* main: summary["hunt_areas"]
    futures,                \* main: the submitted workers, in submission order
    club_index,             \* main: how many areas the sequential loop has done
    plans,                  \* add_members.main: the planned (role, area, email)
    share_results,          \* add_members.main: the ShareResult of each plan done
    slept                   \* the durations passed to time.sleep, in order

mainVars ==
    <<pc, args, verify, normalized_clubs, main_rows, main_assets,
      main_summary, futures, club_index>>

addVars == <<plans, share_results, slept>>

vars ==
    <<op, arg, http, ret, cookies, ACTIVE_ASSET_ENDPOINTS, files, pc, args,
      verify, normalized_clubs, main_rows, main_assets, main_summary,
      futures, club_index, plans, share_results, slept>>

-----------------------------------------------------------------------------
(* Bounds of the model *)

\* longest identifier string drawn as an input
MaxIdLen == 2

\* most elements of a list payload, most entries of a mapping payload
MaxItems == 2

\* how many of the candidate asset endpoints the model keeps
MaxEndpoints == 3

-----------------------------------------------------------------------------
(* Python values *)

Null == [t |-> "null"]

Int(n) == [t |-> "int", n |-> n]

Str(s) == [t |-> "str", s |-> s]

L(items) == [t |-> "list", items |-> items]

D(kv) == [t |-> "dict", kv |-> kv]

KV(k, v) == [k |-> k, v |-> v]

Bool(b) == [t |-> "bool", b |-> b]

\* a response body that is not JSON: r.json() raises
NotJson == [t |-> "notjson"]

\* Python truthiness (bool(v))
Truthy(v) ==
    CASE v.t = "null" -> FALSE
      [] v.t = "int" -> v.n # 0
      [] v.t = "str" -> v.s # <<>>
      [] v.t = "list" -> v.items # <<>>
      [] v.t = "dict" -> v.kv # <<>>
      [] v.t = "bool" -> v.b
      [] OTHER -> TRUE

\* a or b
Or(a, b) == IF Truthy(a) THEN a ELSE b

HasKey(d, k) == \E i \in 1..Len(d.kv) : d.kv[i].k = k

\* d.get(k, default) of a dict d
Get(d, k, default) ==
    IF HasKey(d, k)
    THEN d.kv[CHOOSE i \in 1..Len(d.kv) : d.kv[i].k = k].v
    ELSE default

\* list(d.values())
Values(d) == [i \in 1..Len(d.kv) |-> d.kv[i].v]

\* all sequences over S of length at most n
SeqsUpTo(S, n) == UNION {[1..k -> S] : k \in 0..n}

-----------------------------------------------------------------------------
(* Strings *)

Whitespace == {" "}

RECURSIVE lstrip(_)
lstrip(s) == IF s # <<>> /\ Head(s) \in Whitespace THEN lstrip(Tail(s)) ELSE s

RECURSIVE rstrip(_)
rstrip(s) ==
    IF s # <<>> /\ s[Len(s)] \in Whitespace
    THEN rstrip(SubSeq(s, 1, Len(s) - 1))
    ELSE s

\* str.strip()
strip(s) == rstrip(lstrip(s))

Uppers ==
    << "A", "B", "C", "D", "E", "F", "G", "H", "I", "J", "K", "L", "M",
       "N", "O", "P", "Q", "R", "S", "T", "U", "V", "W", "X", "Y", "Z" >>

Lowers ==
    << "a", "b", "c", "d", "e", "f", "g", "h", "i", "j", "k", "l", "m",
       "n", "o", "p", "q", "r", "s", "t", "u", "v", "w", "x", "y", "z" >>

LowerChar(c) ==
    IF \E i \in 1..Len(Uppers) : Uppers[i] = c
    THEN Lowers[CHOOSE i \in 1..Len(Uppers) : Uppers[i] = c]
    ELSE c

UpperChar(c) ==
    IF \E i \in 1..Len(Lowers) : Lowers[i] = c
    THEN Uppers[CHOOSE i \in 1..Len(Lowers) : Lowers[i] = c]
    ELSE c

\* str.lower()
lower(s) == [i \in 1..Len(s) |-> LowerChar(s[i])]

\* the characters is_safe_id accepts: "0123456789abcdefABCDEF-"
SafeIdChars ==
    {"0", "1", "2", "3", "4", "5", "6", "7", "8", "9",
     "a", "b", "c", "d", "e", "f", "A", "B", "C", "D", "E", "F", "-"}

-----------------------------------------------------------------------------
(* as_dict, is_safe_id, json_or_list_to_objects, get_json *)

as_dict(obj) == IF obj.t = "dict" THEN obj ELSE D(<<>>)

\* the predicate is evaluated on the stripped string; the caller formats the
\* URL with the identifier as it was passed
is_safe_id(val) ==
    CASE val.t = "null" -> FALSE
      [] val.t = "int" -> TRUE
      [] val.t = "str" ->
            LET s == strip(val.s)
            IN  s # <<>> /\ \A i \in 1..Len(s) : s[i] \in SafeIdChars
      [] OTHER -> FALSE

\* a normalizer that does not look for the "objects" envelope
json_or_list_to_objects_NoEnvelope(payload) ==
    CASE payload.t = "null" -> <<>>
      [] payload.t = "list" -> payload.items
      [] payload.t = "dict" -> Values(payload)
      [] OTHER -> <<>>

\* returns the Python list as a sequence
json_or_list_to_objects(payload) ==
    CASE payload.t = "null" -> <<>>
      [] payload.t = "list" -> payload.items
      [] payload.t = "dict" ->
            IF HasKey(payload, "objects") /\ Get(payload, "objects", Null).t = "list"
            THEN Get(payload, "objects", Null).items
            ELSE Values(payload)
      [] OTHER -> <<>>

(* The outcome of one request: the transport raised a RequestException, or  *)
(* it returned a response with a status and a body.                         *)
Raised == [kind |-> "raise"]

Resp(status, body) == [kind |-> "resp", status |-> status, body |-> body]

\* r.raise_for_status() raises HTTPError (a RequestException) for 4xx and 5xx
RaisesForStatus(o) == o.status >= 400

(* get_json: None on a RequestException (transport error, error status, or  *)
(* a body that is not JSON: requests.JSONDecodeError is a RequestException) *)
(* else the parsed body, normalized when a normalizer is given.             *)
get_json(o, normalize) ==
    IF o.kind = "raise" \/ RaisesForStatus(o) \/ o.body.t = "notjson"
    THEN Null
    ELSE IF normalize THEN L(json_or_list_to_objects(o.body)) ELSE o.body

-----------------------------------------------------------------------------
(* Endpoints *)

MYPROFILE_URL == "/api/v1/myprofile/"

INVITE_URL == "/api/v1/membershipemailinvite/?huntarea={}"

MEMBERS_URL == "/api/v1/clubmember/?huntarea_id={}"

REQS_URL == "/api/v1/membershiprequest/?huntarea={}"

HUNTAREA_BY_PROFILE == "/api/v1/huntarea/?profile_id={}"

Endpoint(atype, url) == [atype |-> atype, url |-> url]

AllAssetEndpoints ==
    << Endpoint("stand", "/api/v1/stand/?huntarea_id={}"),
       Endpoint("camera", "/api/v1/camera/?huntarea_id={}"),
       Endpoint("trailcam", "/api/v1/trailcam/?huntarea={}"),
       Endpoint("blind", "/api/v1/blind/?huntarea_id={}"),
       Endpoint("feeder", "/api/v1/feeder/?huntarea_id={}"),
       Endpoint("foodplot", "/api/v1/foodplot/?huntarea_id={}"),
       Endpoint("waypoint", "/api/v1/waypoint/?huntarea_id={}"),
       Endpoint("trail", "/api/v1/scouttrail/?huntarea_id={}"),
       Endpoint("asset", "/api/v1/asset/?huntarea_id={}") >>

Min(a, b) == IF a < b THEN a ELSE b

\* the candidate list, cut to the model's bound
ASSET_ENDPOINT_CANDIDATES ==
    SubSeq(AllAssetEndpoints, 1, Min(MaxEndpoints, Len(AllAssetEndpoints)))

\* the identifier slot of a request whose URL interpolates nothing
NoId == [t |-> "noid"]

\* a GET of url_tmpl.format(id)
GetReq(url, id) == [method |-> "GET", url |-> url, id |-> id]

-----------------------------------------------------------------------------
(* The guarded fetch functions.  Each returns the requests it issued and    *)
(* its value.                                                               *)

fetch_members_for_area(o, hunt_id) ==
    IF ~is_safe_id(hunt_id)
    THEN [http |-> <<>>, val |-> Null]
    ELSE [http |-> <<GetReq(MEMBERS_URL, hunt_id)>>, val |-> get_json(o, FALSE)]

\* data if isinstance(data, list) else []
ListOrEmpty(data) == IF data.t = "list" THEN data ELSE L(<<>>)

fetch_invites_for_area(o, hunt_id) ==
    IF ~is_safe_id(hunt_id)
    THEN [http |-> <<>>, val |-> L(<<>>)]
    ELSE [http |-> <<GetReq(INVITE_URL, hunt_id)>>,
          val |-> ListOrEmpty(get_json(o, TRUE))]

fetch_requests_for_area(o, hunt_id) ==
    IF ~is_safe_id(hunt_id)
    THEN [http |-> <<>>, val |-> L(<<>>)]
    ELSE [http |-> <<GetReq(REQS_URL, hunt_id)>>,
          val |-> ListOrEmpty(get_json(o, TRUE))]

\* str(v) of a str or of an int below ten
StrOf(v) ==
    IF v.t = "str" THEN v.s
    ELSE <<<<"0", "1", "2", "3", "4", "5", "6", "7", "8", "9">>[v.n + 1]>>

\* _normalize_asset, lines 562-568: raw["public"], raw["shared"] when that
\* is None; a bool becomes "public" or "private", anything else
\* str(visibility or "")
asset_visibility(raw) ==
    LET public == Get(raw, "public", Null)
        visibility == IF public = Null THEN Get(raw, "shared", Null) ELSE public
    IN  IF visibility.t = "bool"
        THEN IF visibility.b THEN Str(<<"p", "u", "b", "l", "i", "c">>)
             ELSE Str(<<"p", "r", "i", "v", "a", "t", "e">>)
        ELSE IF Truthy(visibility) THEN Str(StrOf(visibility)) ELSE Str(<<>>)

\* the asset row of one raw record (the fields the model follows)
normalize_asset(raw, asset_type, huntarea_id, huntarea_name) ==
    [huntarea_id |-> huntarea_id, huntarea_name |-> huntarea_name,
     asset_type |-> asset_type, raw |-> raw, visibility |-> asset_visibility(raw)]

\* the raw records one asset endpoint's response yields: none on a transport
\* error, an error status, a body that is not JSON or another shape
AssetRawList(o) ==
    IF o.kind = "raise" \/ o.status >= 400 \/ o.body.t = "notjson"
    THEN <<>>
    ELSE IF o.body.t = "dict" /\ HasKey(o.body, "objects")
               /\ Get(o.body, "objects", Null).t = "list"
         THEN Get(o.body, "objects", Null).items
         ELSE IF o.body.t = "list" THEN o.body.items ELSE <<>>

RECURSIVE AssetRows(_, _, _, _)
AssetRows(raws, atype, hunt_id, huntarea_name) ==
    IF raws = <<>> THEN <<>>
    ELSE (IF Head(raws).t = "dict"
          THEN <<normalize_asset(Head(raws), atype, hunt_id, huntarea_name)>>
          ELSE <<>>)
         \o AssetRows(Tail(raws), atype, hunt_id, huntarea_name)

\* os[i] is the outcome of the GET of the i-th active endpoint
RECURSIVE FetchAssetsLoop(_, _, _, _)
FetchAssetsLoop(endpoints, os, hunt_id, huntarea_name) ==
    IF endpoints = <<>> THEN <<>>
    ELSE AssetRows(AssetRawList(Head(os)), Head(endpoints).atype, hunt_id, huntarea_name)
         \o FetchAssetsLoop(Tail(endpoints), Tail(os), hunt_id, huntarea_name)

fetch_assets_for_area(active, os, hunt_id, huntarea_name) ==
    IF ~is_safe_id(hunt_id)
    THEN [http |-> <<>>, val |-> L(<<>>)]
    ELSE [http |-> [i \in 1..Len(active) |-> GetReq(active[i].url, hunt_id)],
          val |-> L(FetchAssetsLoop(active, os, hunt_id, huntarea_name))]

-----------------------------------------------------------------------------
(* Inputs of the fetch functions *)

IdChars == {"7", "c", "E", "-", " ", "/", "g"}

\* identifiers as upstream JSON or the command line can hold them
Ids ==
    {Null, Int(12), D(<<KV("x", Int(1))>>)}
        \cup {Str(s) : s \in SeqsUpTo(IdChars, MaxIdLen)}

ARecord == D(<<KV("id", Int(1)), KV("name", Str(<<"c">>))>>)

ErrorEnvelope == D(<<KV("detail", Str(<<"E">>))>>)

FetchOutcomes ==
    {Raised, Resp(404, ErrorEnvelope), Resp(200, NotJson), Resp(200, Null),
     Resp(200, L(<<ARecord>>)), Resp(200, D(<<KV("objects", L(<<ARecord>>))>>)),
     Resp(200, ErrorEnvelope), Resp(200, Int(5))}

AssetOutcomes ==
    {Raised, Resp(404, ErrorEnvelope), Resp(200, L(<<ARecord, Int(5)>>)),
     Resp(200, ErrorEnvelope)}

Returned(v) == [raised |-> FALSE, val |-> v]

Raise(exc) == [raised |-> TRUE, val |-> [t |-> "exception", class |-> exc]]

InitCommon ==
    /\ op = "none"
    /\ arg = [id |-> Null]
    /\ http = <<>>
    /\ ret = Returned(Null)
    /\ cookies = [sessionid |-> "", csrftoken |-> ""]
    /\ ACTIVE_ASSET_ENDPOINTS = ASSET_ENDPOINT_CANDIDATES
    /\ files = {}
    /\ pc = "start"
    /\ args = [t |-> "null"]
    /\ verify = TRUE
    /\ normalized_clubs = <<>>
    /\ main_rows = <<>>
    /\ main_assets = <<>>
    /\ main_summary = <<>>
    /\ futures = <<>>
    /\ club_index = 0
    /\ plans = <<>>
    /\ share_results = <<>>
    /\ slept = <<>>

FetchMembers ==
    \E id \in Ids, o \in FetchOutcomes :
        LET r == fetch_members_for_area(o, id)
        IN  /\ op = "none"
            /\ op' = "fetch_members_for_area"
            /\ arg' = [id |-> id]
            /\ http' = r.http
            /\ ret' = Returned(r.val)
            /\ UNCHANGED <<cookies, ACTIVE_ASSET_ENDPOINTS, files, mainVars, addVars>>

FetchInvites ==
    \E id \in Ids, o \in FetchOutcomes :
        LET r == fetch_invites_for_area(o, id)
        IN  /\ op = "none"
            /\ op' = "fetch_invites_for_area"
            /\ arg' = [id |-> id]
            /\ http' = r.http
            /\ ret' = Returned(r.val)
            /\ UNCHANGED <<cookies, ACTIVE_ASSET_ENDPOINTS, files, mainVars, addVars>>

FetchRequests ==
    \E id \in Ids, o \in FetchOutcomes :
        LET r == fetch_requests_for_area(o, id)
        IN  /\ op = "none"
            /\ op' = "fetch_requests_for_area"
            /\ arg' = [id |-> id]
            /\ http' = r.http
            /\ ret' = Returned(r.val)
            /\ UNCHANGED <<cookies, ACTIVE_ASSET_ENDPOINTS, files, mainVars, addVars>>

FetchAssets ==
    \E id \in Ids, os \in [1..Len(ACTIVE_ASSET_ENDPOINTS) -> AssetOutcomes] :
        LET r == fetch_assets_for_area(ACTIVE_ASSET_ENDPOINTS, os, id, "Area")
        IN  /\ op = "none"
            /\ op' = "fetch_assets_for_area"
            /\ arg' = [id |-> id]
            /\ http' = r.http
            /\ ret' = Returned(r.val)
            /\ UNCHANGED <<cookies, ACTIVE_ASSET_ENDPOINTS, files, mainVars, addVars>>

NextFetch == FetchMembers \/ FetchInvites \/ FetchRequests \/ FetchAssets

SpecFetch == InitCommon /\ [][NextFetch]_vars

-----------------------------------------------------------------------------
(* C1 *)

FetchOps ==
    {"fetch_members_for_area", "fetch_invites_for_area",
     "fetch_requests_for_area", "fetch_assets_for_area"}

\* an identifier the claim calls unsafe: None, empty, or a string with a
\* character outside [0-9a-fA-F-]
HasUnsafeChar(val) ==
    \/ val.t = "null"
    \/ val.t = "str" /\ (val.s = <<>> \/ \E i \in 1..Len(val.s) : val.s[i] \notin SafeIdChars)

EmptyResult(o, v) ==
    IF o = "fetch_members_for_area" THEN v = Null ELSE v = L(<<>>)

\* C1: for every identifier that is None, empty or holds a character outside
\* [0-9a-fA-F-], is_safe_id is false and the four fetch functions issue no
\* request and return their empty result.
C1_UnsafeIdRefused ==
    (op \in FetchOps /\ HasUnsafeChar(arg.id)) =>
        /\ ~is_safe_id(arg.id)
        /\ http = <<>>
        /\ EmptyResult(op, ret.val)

-----------------------------------------------------------------------------
(* gather_huntareas *)

\* len(x) raises TypeError for None and numbers
HasLen(v) == v.t \in {"list", "str", "dict"}

PyLen(v) ==
    CASE v.t = "list" -> Len(v.items)
      [] v.t = "str" -> Len(v.s)
      [] v.t = "dict" -> Len(v.kv)

\* the request failed with a RequestException: the transport raised,
\* raise_for_status raised, or the body was not JSON
RequestFailed(o) == o.kind = "raise" \/ RaisesForStatus(o) \/ o.body.t = "notjson"

\* the try block around the myprofile request: clubs stays [] when a
\* RequestException is caught; len(clubs) in the log call raises TypeError
\* when hunt_areas holds null or a number
MyProfileStage_NoCatch(o) ==
    IF RequestFailed(o)
    THEN [raised |-> TRUE, clubs |-> L(<<>>)]
    ELSE LET clubs == Get(as_dict(o.body), "hunt_areas", L(<<>>))
         IN  [raised |-> ~HasLen(clubs), clubs |-> clubs]

MyProfileStage(o) ==
    IF RequestFailed(o)
    THEN [raised |-> FALSE, clubs |-> L(<<>>)]
    ELSE LET clubs == Get(as_dict(o.body), "hunt_areas", L(<<>>))
         IN  [raised |-> ~HasLen(clubs), clubs |-> clubs]

\* if fallback_profile_id and len(clubs) == 0
FallbackWanted(fallback_profile_id, clubs) ==
    Truthy(fallback_profile_id) /\ PyLen(clubs) = 0

\* the fallback request: clubs is replaced only when it succeeds
FallbackStage(o, clubs) ==
    IF RequestFailed(o) THEN clubs ELSE L(json_or_list_to_objects(o.body))

\* o1 is the outcome of the myprofile request, o2 of the profile-scoped one
gather_huntareas(o1, o2, fallback_profile_id) ==
    LET first == MyProfileStage(o1)
        get1 == GetReq(MYPROFILE_URL, NoId)
    IN  IF first.raised
        THEN [http |-> <<get1>>, ret |-> Raise("TypeError")]
        ELSE IF FallbackWanted(fallback_profile_id, first.clubs)
             THEN [http |-> <<get1, GetReq(HUNTAREA_BY_PROFILE, fallback_profile_id)>>,
                   ret |-> Returned(FallbackStage(o2, first.clubs))]
             ELSE [http |-> <<get1>>, ret |-> Returned(first.clubs)]

AnArea == D(<<KV("id", Int(10)), KV("name", Str(<<"c">>))>>)

HuntAreas(v) == D(<<KV("hunt_areas", v)>>)

MyProfileOutcomes ==
    {Raised, Resp(500, ErrorEnvelope), Resp(200, NotJson),
     Resp(200, HuntAreas(L(<<>>))), Resp(200, HuntAreas(L(<<AnArea>>))),
     Resp(200, D(<<>>)), Resp(200, L(<<AnArea>>)), Resp(200, HuntAreas(Null))}

ByProfileOutcomes ==
    {Raised, Resp(404, ErrorEnvelope), Resp(200, NotJson), Resp(200, Null),
     Resp(200, L(<<AnArea>>)), Resp(200, D(<<KV("objects", L(<<AnArea>>))>>)),
     Resp(200, ErrorEnvelope), Resp(200, L(<<>>))}

\* --profile-id / HUNTSTAND_PROFILEID: absent, or any string
ProfileIds == {Null} \cup {Str(s) : s \in SeqsUpTo(IdChars, MaxIdLen)}

GatherHuntareas ==
    \E pid \in ProfileIds, o1 \in MyProfileOutcomes, o2 \in ByProfileOutcomes :
        LET r == gather_huntareas(o1, o2, pid)
        IN  /\ op = "none"
            /\ op' = "gather_huntareas"
            /\ arg' = [id |-> pid, primary |-> o1,
                       fallback |-> IF Len(r.http) = 2 THEN o2 ELSE Raised]
            /\ http' = r.http
            /\ ret' = r.ret
            /\ UNCHANGED <<cookies, ACTIVE_ASSET_ENDPOINTS, files, mainVars, addVars>>

NextGather == GatherHuntareas

SpecGather == InitCommon /\ [][NextGather]_vars

-----------------------------------------------------------------------------
(* C7 *)

\* the my-profile request raised, or succeeded with an empty hunt_areas list
PrimaryFailedOrEmpty(o) ==
    RequestFailed(o) \/ o.body = HuntAreas(L(<<>>))

\* a bare list or an objects envelope
IsAreaListing(body) ==
    \/ body.t = "list"
    \/ body.t = "dict" /\ HasKey(body, "objects") /\ Get(body, "objects", Null).t = "list"

AreasOf(body) ==
    IF body.t = "list" THEN body.items ELSE Get(body, "objects", Null).items

\* C7: with a fallback profile id, a raising my-profile request and an empty
\* hunt_areas list take the same path: the profile-scoped endpoint is queried
\* after the my-profile one and the result is exactly its areas.
C7_FallbackOnBothFailureModes ==
    (op = "gather_huntareas" /\ Truthy(arg.id) /\ PrimaryFailedOrEmpty(arg.primary)) =>
        /\ ~ret.raised
        /\ http = <<GetReq(MYPROFILE_URL, NoId), GetReq(HUNTAREA_BY_PROFILE, arg.id)>>
        /\ (~RequestFailed(arg.fallback) /\ IsAreaListing(arg.fallback.body)) =>
                ret.val = L(AreasOf(arg.fallback.body))
        /\ RequestFailed(arg.fallback) => ret.val = L(<<>>)

C7_Witness ==
    /\ op = "gather_huntareas"
    /\ arg.primary = Raised
    /\ Truthy(arg.id)
    /\ Len(http) = 2
    /\ ret = Returned(L(<<AnArea>>))

-----------------------------------------------------------------------------
(* refine_active_asset_endpoints *)

\* one probe: dropped on a transport error, on a status >= 400 and when
\* r.json() raises; kept for a list or a dict whose "objects" is a list
ProbeUsable_NoStatusCheck(o) ==
    /\ o.kind = "resp"
    /\ o.body.t # "notjson"
    /\ \/ o.body.t = "list"
       \/ o.body.t = "dict" /\ Get(o.body, "objects", Null).t = "list"

ProbeUsable(o) ==
    /\ o.kind = "resp"
    /\ ~(o.status >= 400)
    /\ o.body.t # "notjson"
    /\ \/ o.body.t = "list"
       \/ o.body.t = "dict" /\ Get(o.body, "objects", Null).t = "list"

\* the loop over the active endpoints: kept, in order
RECURSIVE ProbeLoop(_, _)
ProbeLoop(endpoints, os) ==
    IF endpoints = <<>> THEN <<>>
    ELSE (IF ProbeUsable(Head(os)) THEN <<Head(endpoints)>> ELSE <<>>)
         \o ProbeLoop(Tail(endpoints), Tail(os))

\* if kept: ACTIVE_ASSET_ENDPOINTS = kept
RefineAssign_Always(kept, active) == kept

RefineAssign(kept, active) == IF kept # <<>> THEN kept ELSE active

refine_active_asset_endpoints_NoIdGuard(active, os, sample_hunt_id) ==
    [http |-> [i \in 1..Len(active) |-> GetReq(active[i].url, sample_hunt_id)],
     active |-> RefineAssign(ProbeLoop(active, os), active)]

\* the requests issued and the new active list
refine_active_asset_endpoints(active, os, sample_hunt_id) ==
    IF ~is_safe_id(sample_hunt_id)
    THEN [http |-> <<>>, active |-> active]
    ELSE [http |-> [i \in 1..Len(active) |-> GetReq(active[i].url, sample_hunt_id)],
          active |-> RefineAssign(ProbeLoop(active, os), active)]

\* a probe whose r.json() raises is dropped by the same except clause as one
\* whose request raises
ProbeOutcomes ==
    {Raised, Resp(404, L(<<ARecord>>)), Resp(200, L(<<ARecord>>)),
     Resp(200, D(<<KV("objects", L(<<>>))>>)), Resp(200, ErrorEnvelope)}

SampleIds == {Int(12), Str(<<"7", "c">>), Str(<<"/">>)}

\* arg.os holds the outcomes of the probes issued (none for an unsafe id)
RefineActiveAssetEndpoints ==
    \E id \in SampleIds, os \in [1..Len(ACTIVE_ASSET_ENDPOINTS) -> ProbeOutcomes] :
        LET r == refine_active_asset_endpoints(ACTIVE_ASSET_ENDPOINTS, os, id)
        IN  /\ op' = "refine_active_asset_endpoints"
            /\ arg' = [id |-> id, before |-> ACTIVE_ASSET_ENDPOINTS,
                       os |-> IF r.http = <<>> THEN <<>> ELSE os]
            /\ http' = r.http
            /\ ret' = Returned(Null)
            /\ ACTIVE_ASSET_ENDPOINTS' = r.active
            /\ UNCHANGED <<cookies, files, mainVars, addVars>>

NextRefine == RefineActiveAssetEndpoints

SpecRefine == InitCommon /\ [][NextRefine]_vars

-----------------------------------------------------------------------------
(* C8, C9 *)

\* a probe the claims call usable: a non-error status with a bare list or an
\* object containing an "objects" list
UsableProbe(o) ==
    /\ o.kind = "resp"
    /\ o.status < 400
    /\ \/ o.body.t = "list"
       \/ o.body.t = "dict" /\ HasKey(o.body, "objects")
            /\ Get(o.body, "objects", Null).t = "list"

\* the entries of list whose index satisfies the flag
RECURSIVE Select(_, _)
Select(list, flags) ==
    IF list = <<>> THEN <<>>
    ELSE (IF Head(flags) THEN <<Head(list)>> ELSE <<>>) \o Select(Tail(list), Tail(flags))

Refined == op = "refine_active_asset_endpoints"

SomeUsable == \E i \in 1..Len(arg.os) : UsableProbe(arg.os[i])

\* C8: after a refinement with a safe sample id and at least one usable probe,
\* the active list holds exactly the endpoints whose probe was usable.
C8_ActiveIsExactlyUsable ==
    (Refined /\ is_safe_id(arg.id) /\ SomeUsable) =>
        ACTIVE_ASSET_ENDPOINTS =
            Select(arg.before, [i \in 1..Len(arg.os) |-> UsableProbe(arg.os[i])])

C8_Witness ==
    /\ Refined
    /\ is_safe_id(arg.id)
    /\ \E i, j, k \in 1..Len(arg.os) :
          /\ arg.os[i] = Resp(200, L(<<ARecord>>))
          /\ arg.os[j] = Resp(200, D(<<KV("objects", L(<<>>))>>))
          /\ arg.os[k] = Resp(200, ErrorEnvelope)
    /\ Len(ACTIVE_ASSET_ENDPOINTS) = Len(arg.before) - 1

\* C9 as stated: a refinement that finds no usable endpoint leaves the
\* original full candidate list active, and the active list is never empty.
C9_Original ==
    /\ (Refined /\ is_safe_id(arg.id) /\ ~SomeUsable) =>
            ACTIVE_ASSET_ENDPOINTS = ASSET_ENDPOINT_CANDIDATES
    /\ ACTIVE_ASSET_ENDPOINTS # <<>>

\* C9 amended: a refinement that finds no usable endpoint leaves the list
\* that was active before the call unchanged (the full candidate list only if
\* no earlier call narrowed it), and the active list is never empty.
C9_NoUsableKeepsActive ==
    /\ (Refined /\ ~SomeUsable) => ACTIVE_ASSET_ENDPOINTS = arg.before
    /\ ACTIVE_ASSET_ENDPOINTS # <<>>

C9_Witness ==
    /\ Refined
    /\ is_safe_id(arg.id)
    /\ Len(arg.os) > 0
    /\ ~SomeUsable
    /\ arg.before # ASSET_ENDPOINT_CANDIDATES
    /\ ACTIVE_ASSET_ENDPOINTS = arg.before

-----------------------------------------------------------------------------
(* add_members.py: fetch_hunt_area_members, the verification fetch *)

\* members_map[k] = v
DictPut(kv, k, v) ==
    IF \E i \in 1..Len(kv) : kv[i].k = k
    THEN [i \in 1..Len(kv) |-> IF kv[i].k = k THEN KV(k, v) ELSE kv[i]]
    ELSE Append(kv, KV(k, v))

\* the role of one member or invite record; Null when role.lower() raises
MemberRole(m) ==
    LET rank_obj == Get(m, "rank", Null)
        role == IF rank_obj.t = "dict"
                THEN Get(rank_obj, "name", Str(<<"m", "e", "m", "b", "e", "r">>))
                ELSE IF Truthy(rank_obj) THEN rank_obj
                     ELSE Str(<<"m", "e", "m", "b", "e", "r">>)
    IN  IF role.t = "str" THEN Str(lower(role.s)) ELSE Null

\* the loop over one listing; an exception ends it and keeps what was added
RECURSIVE MembersLoop(_, _)
MembersLoop(list, map) ==
    IF list = <<>> THEN map
    ELSE LET m == Head(list) IN
         IF m.t # "dict" THEN MembersLoop(Tail(list), map)
         ELSE LET e == Or(Get(m, "email", Null), Str(<<>>)) IN
              IF e.t # "str" \/ MemberRole(m) = Null THEN map
              ELSE LET email == lower(strip(e.s)) IN
                   MembersLoop(Tail(list),
                               IF email # <<>>
                               THEN DictPut(map, Str(email), MemberRole(m))
                               ELSE map)

\* one of the two try blocks: any exception leaves the map as it was
MembersFromResponse(o, map) ==
    IF RequestFailed(o) THEN map
    ELSE IF o.body.t = "dict" /\ HasKey(o.body, "objects")
         THEN IF Get(o.body, "objects", Null).t = "list"
              THEN MembersLoop(Get(o.body, "objects", Null).items, map)
              ELSE map
         ELSE IF o.body.t = "list" THEN MembersLoop(o.body.items, map) ELSE map

\* both requests are always issued, with the identifier as it was passed
fetch_hunt_area_members(o1, o2, huntarea_id) ==
    [http |-> <<GetReq(MEMBERS_URL, huntarea_id), GetReq(INVITE_URL, huntarea_id)>>,
     val |-> D(MembersFromResponse(o2, MembersFromResponse(o1, <<>>)))]

AMember == D(<<KV("email", Str(<<" ", "E">>)), KV("rank", Str(<<"G">>))>>)

AnInvite == D(<<KV("email", Str(<<"e">>)), KV("rank", D(<<KV("name", Null)>>))>>)

VerifyOutcomes ==
    {Raised, Resp(200, L(<<AMember>>)), Resp(200, D(<<KV("objects", L(<<AnInvite>>))>>)),
     Resp(200, D(<<KV("objects", L(<<Int(5), AMember>>))>>))}

\* the huntarea_id column of the results CSV, stripped by verify_additions
CsvIds == {Str(strip(s)) : s \in SeqsUpTo(IdChars, MaxIdLen)}

FetchHuntAreaMembers ==
    \E id \in CsvIds, o1 \in VerifyOutcomes, o2 \in VerifyOutcomes :
        LET r == fetch_hunt_area_members(o1, o2, id)
        IN  /\ op = "none"
            /\ op' = "fetch_hunt_area_members"
            /\ arg' = [id |-> id]
            /\ http' = r.http
            /\ ret' = Returned(r.val)
            /\ UNCHANGED <<cookies, ACTIVE_ASSET_ENDPOINTS, files, mainVars, addVars>>

\* the dynamic refinement of one run (main calls it once, for the first area)
ProbeFirstArea == op = "none" /\ RefineActiveAssetEndpoints

NextUrls ==
    \/ FetchMembers
    \/ FetchInvites
    \/ FetchRequests
    \/ FetchAssets
    \/ GatherHuntareas
    \/ ProbeFirstArea
    \/ FetchHuntAreaMembers

SpecUrls == InitCommon /\ [][NextUrls]_vars

-----------------------------------------------------------------------------
(* C2 *)

\* C2: every GET whose URL interpolates an identifier (hunt-area id, bulk-add
\* verification id, fallback profile id) was issued only after the identifier
\* passed the safety predicate.
C2_InterpolatedIdsPassedPredicate ==
    \A i \in 1..Len(http) : http[i].id # NoId => is_safe_id(http[i].id)

-----------------------------------------------------------------------------
(* attempt_login *)

ROOT_PATH == "/"

LOGIN_POST_PATH == "/login"

(* The outcome of a request of the login exchange: the transport raised a   *)
(* RequestException or returned a response with a status; either way the   *)
(* exchange may have stored cookies in the jar (requests stores the cookies *)
(* of every response of a redirect chain before a later hop fails).         *)
Exchange(kind, status, set_session, set_csrf) ==
    [kind |-> kind, status |-> status, set_session |-> set_session, set_csrf |-> set_csrf]

\* the jar after the exchange
StoreCookies(jar, o) ==
    [sessionid |-> IF o.set_session # "" THEN o.set_session ELSE jar.sessionid,
     csrftoken |-> IF o.set_csrf # "" THEN o.set_csrf ELSE jar.csrftoken]

\* for user_field in ("login", "username")
LoginFields_OnlyLogin == <<"login">>

LoginFields == <<"login", "username">>

\* session.post(BASE_URL + LOGIN_POST_PATH, data=payload, ...)
PostReq(user_field, username, password, csrf_cookie) ==
    [method |-> "POST", url |-> LOGIN_POST_PATH, user_field |-> user_field,
     username |-> username, csrfmiddlewaretoken |-> csrf_cookie,
     password |-> password, source |-> "web"]

\* the cookie test runs only when session.post returned: inside the try,
\* before any look at the status
PostSucceeded_Needs2xx(o, jar) ==
    o.kind = "resp" /\ o.status >= 200 /\ o.status < 300 /\ jar.sessionid # ""

PostSucceeded(o, jar) == o.kind = "resp" /\ jar.sessionid # ""

RECURSIVE LoginLoop(_, _, _, _, _, _)
LoginLoop(fields, posts, jar, username, password, csrf_cookie) ==
    IF fields = <<>>
    THEN [http |-> <<>>, jar |-> jar, ok |-> FALSE]
    ELSE LET o == Head(posts)
             jar1 == StoreCookies(jar, o)
             req == PostReq(Head(fields), username, password, csrf_cookie)
         IN  IF PostSucceeded(o, jar1)
             THEN [http |-> <<req>>, jar |-> jar1, ok |-> TRUE]
             ELSE LET rest == LoginLoop(Tail(fields), Tail(posts), jar1,
                                        username, password, csrf_cookie)
                  IN  [http |-> <<req>> \o rest.http, jar |-> rest.jar, ok |-> rest.ok]

\* g is the outcome of the root GET, posts[i] of the i-th POST
attempt_login(jar, g, posts, username, password) ==
    LET jar0 == StoreCookies(jar, g)
        csrf_cookie == jar0.csrftoken
        loop == LoginLoop(LoginFields, posts, jar0, username, password, csrf_cookie)
    IN  [http |-> <<GetReq(ROOT_PATH, NoId)>> \o loop.http,
         jar |-> loop.jar, ok |-> loop.ok]

GetExchanges ==
    {Exchange(k[1], k[2], s, c) :
        k \in {<<"raise", 0>>, <<"resp", 200>>, <<"resp", 500>>},
        s \in {"", "anon-1"}, c \in {"", "csrf-1"}}

PostExchanges ==
    {Exchange(k[1], k[2], s, c) :
        k \in {<<"raise", 0>>, <<"resp", 200>>, <<"resp", 403>>},
        s \in {"", "sess-123"}, c \in {"", "csrf-2"}}

\* the callers run it on a session without a sessionid cookie
LoginJars == {[sessionid |-> "", csrftoken |-> c] : c \in {"", "abc"}}

AttemptLogin ==
    \E jar \in LoginJars, g \in GetExchanges, posts \in [1..2 -> PostExchanges] :
        LET r == attempt_login(jar, g, posts, "user@example.com", "pass")
        IN  /\ op = "none"
            /\ op' = "attempt_login"
            /\ arg' = [jar |-> jar, get |-> g,
                       posts |-> SubSeq(posts, 1, Len(r.http) - 1)]
            /\ http' = r.http
            /\ ret' = Returned(r.ok)
            /\ cookies' = r.jar
            /\ UNCHANGED <<ACTIVE_ASSET_ENDPOINTS, files, mainVars, addVars>>

NextLogin == AttemptLogin

SpecLogin == InitCommon /\ [][NextLogin]_vars

-----------------------------------------------------------------------------
(* C5, C6 *)

LoggedIn == op = "attempt_login"

\* the jar after the root GET and the first k POSTs
RECURSIVE JarAfter(_)
JarAfter(k) ==
    IF k = 0 THEN StoreCookies(arg.jar, arg.get)
    ELSE StoreCookies(JarAfter(k - 1), arg.posts[k])

NumPosts == Len(arg.posts)

\* one root GET, then the POST keyed login, then the POST keyed username,
\* each with the harvested CSRF token, source=web and the password
OneGetTwoPosts ==
    http = << GetReq(ROOT_PATH, NoId),
              PostReq("login", "user@example.com", "pass", JarAfter(0).csrftoken),
              PostReq("username", "user@example.com", "pass", JarAfter(0).csrftoken) >>

\* C5 as stated: when no POST makes a sessionid cookie appear, the call
\* returns false after one root GET and exactly two POSTs.
C5_Original ==
    (LoggedIn /\ \A k \in 1..NumPosts : arg.posts[k].set_session = "") =>
        ret.val = FALSE /\ OneGetTwoPosts

\* C5 amended: when no sessionid cookie ever appears in the jar (neither the
\* root GET nor a POST stores one), the call returns false after one root GET
\* and exactly two POSTs, keyed login then username.
C5_NoCookieTwoPosts ==
    (LoggedIn /\ \A k \in 0..NumPosts : JarAfter(k).sessionid = "") =>
        ret.val = FALSE /\ OneGetTwoPosts

C5_Witness ==
    /\ LoggedIn
    /\ cookies.sessionid = ""
    /\ ret.val = FALSE
    /\ NumPosts = 2
    /\ arg.posts[1].kind = "resp"
    /\ arg.posts[2].kind = "raise"
    /\ http[2].csrfmiddlewaretoken = "csrf-1"

-----------------------------------------------------------------------------
(* process_hunt_area: the rows of one hunt area *)

DigitChars == <<"0", "1", "2", "3", "4", "5", "6", "7", "8", "9">>

\* str(n) of a non-negative int
RECURSIVE IntStr(_)
IntStr(n) ==
    IF n < 10 THEN <<DigitChars[n + 1]>>
    ELSE IntStr(n \div 10) \o <<DigitChars[(n % 10) + 1]>>

\* str(v), as an f-string formats it, of the values the model formats
PyStr(v) ==
    CASE v.t = "str" -> v.s
      [] v.t = "int" -> IntStr(v.n)
      [] v.t = "null" -> <<"N", "o", "n", "e">>

EmptyStr == Str(<<>>)

StatusActive == Str(<<"a", "c", "t", "i", "v", "e">>)

StatusInvited == Str(<<"i", "n", "v", "i", "t", "e", "d">>)

StatusRequested == Str(<<"r", "e", "q", "u", "e", "s", "t", "e", "d">>)

RankMember == Str(<<"m", "e", "m", "b", "e", "r">>)

MembershipRow(hid, hunt_name, name, email, rank, status, date_joined) ==
    [huntarea_id |-> hid, huntarea_name |-> hunt_name, name |-> name,
     email |-> email, rank |-> rank, status |-> status,
     date_joined |-> date_joined]

\* x.get(...) of an x that is no mapping, and x.strip() of an x that is no
\* string, raise AttributeError
AttributeError == Raise("AttributeError")

\* the body of "for m in members_list"
member_row(m, hid, hunt_name) ==
    IF m.t # "dict" THEN AttributeError
    ELSE LET first_name == Get(m, "first_name", EmptyStr)
             last_name == Get(m, "last_name", EmptyStr)
             email == Get(m, "email", EmptyStr)
         IN  IF first_name.t # "str" \/ last_name.t # "str" \/ email.t # "str"
             THEN AttributeError
             ELSE Returned(MembershipRow(hid, hunt_name,
                      Str(strip(strip(first_name.s) \o <<" ">> \o strip(last_name.s))),
                      Str(strip(email.s)), RankMember, StatusActive, EmptyStr))

\* the body of "for inv in invites"
invite_row(inv, hid, hunt_name) ==
    IF inv.t # "dict" THEN AttributeError
    ELSE LET invite_name == Or(Or(Get(inv, "name", Null), Get(inv, "full_name", Null)), EmptyStr)
             email == Or(Get(inv, "email", Null), EmptyStr)
             rank_obj == Get(inv, "rank", Null)
             rank1 == IF rank_obj.t = "dict"
                      THEN Or(Or(Get(rank_obj, "name", Null), Get(rank_obj, "title", Null)), EmptyStr)
                      ELSE Str(PyStr(Or(rank_obj, EmptyStr)))
             invite_rank == IF ~Truthy(rank1)
                            THEN Or(Or(Get(inv, "role", Null), Get(inv, "intended_rank", Null)), EmptyStr)
                            ELSE rank1
             invite_date == Or(Or(Or(Get(inv, "date_joined", Null), Get(inv, "created", Null)),
                                  Get(inv, "date_sent", Null)), EmptyStr)
         IN  IF email.t # "str" \/ invite_name.t # "str" \/ invite_rank.t # "str"
             THEN AttributeError
             ELSE Returned(MembershipRow(hid, hunt_name, Str(strip(invite_name.s)),
                      Str(strip(email.s)), Str(strip(invite_rank.s)),
                      StatusInvited, invite_date))

\* the body of "for rq in reqs"
request_row(rq0, hid, hunt_name) ==
    LET rq == as_dict(rq0)
        profile == as_dict(Get(rq, "profile", D(<<>>)))
        user_data == as_dict(Get(profile, "user", D(<<>>)))
        first0 == Or(Or(Get(profile, "first_name", Null), Get(user_data, "first_name", Null)), EmptyStr)
        last0 == Or(Or(Get(profile, "last_name", Null), Get(user_data, "last_name", Null)), EmptyStr)
        user0 == Or(Or(Get(profile, "username", Null), Get(user_data, "username", Null)), EmptyStr)
        email0 == Get(profile, "email", EmptyStr)
        email1 == Get(user_data, "email", EmptyStr)
        rank_obj == Get(rq, "rank", D(<<>>))
        rank0 == IF rank_obj.t = "dict" THEN Get(rank_obj, "name", EmptyStr) ELSE EmptyStr
        request_date == Get(rq, "date_requested", EmptyStr)
    IN  IF \/ first0.t # "str" \/ last0.t # "str" \/ user0.t # "str"
           \/ email0.t # "str"
           \/ (strip(email0.s) = <<>> /\ email1.t # "str")
           \/ rank0.t # "str"
        THEN AttributeError
        ELSE LET first_name == strip(first0.s)
                 last_name == strip(last0.s)
                 username == strip(user0.s)
                 name0 == IF first_name # <<>> \/ last_name # <<>>
                          THEN strip(first_name \o <<" ">> \o last_name)
                          ELSE username
                 request_email == IF strip(email0.s) # <<>> THEN strip(email0.s)
                                  ELSE strip(email1.s)
                 profile_id == Or(Get(profile, "id", EmptyStr), Get(user_data, "id", EmptyStr))
                 request_name ==
                     IF name0 = <<>> /\ request_email = <<>> /\ Truthy(profile_id)
                     THEN IF Truthy(Get(profile, "id", Null))
                          THEN <<"P", "r", "o", "f", "i", "l", "e", "_">> \o PyStr(profile_id)
                          ELSE <<"U", "s", "e", "r", "_">> \o PyStr(profile_id)
                     ELSE name0
             IN  Returned(MembershipRow(hid, hunt_name, Str(request_name),
                     Str(request_email), Str(strip(rank0.s)),
                     StatusRequested, request_date))

\* a "for" loop of row builders: the first record that raises ends the call
RowsOf(results) ==
    IF \E i \in 1..Len(results) : results[i].raised
    THEN AttributeError
    ELSE Returned([i \in 1..Len(results) |-> results[i].val])

member_rows(members_list, hid, hunt_name) ==
    RowsOf([i \in 1..Len(members_list) |-> member_row(members_list[i], hid, hunt_name)])

invite_rows(invites, hid, hunt_name) ==
    RowsOf([i \in 1..Len(invites) |-> invite_row(invites[i], hid, hunt_name)])

request_rows(reqs, hid, hunt_name) ==
    RowsOf([i \in 1..Len(reqs) |-> request_row(reqs[i], hid, hunt_name)])

\* the number of raw records a summary keeps per category
SampleSize == 10

Sample(s) == SubSeq(s, 1, Min(SampleSize, Len(s)))

summary_entry(hid, hunt_name, hmeta, members_list, invites, reqs, assets, include_assets) ==
    IF include_assets
    THEN [id |-> hid, name |-> hunt_name, meta |-> hmeta,
          counts |-> [members |-> Len(members_list), invites |-> Len(invites),
                      requests |-> Len(reqs), assets |-> Len(assets)],
          members_sample |-> Sample(members_list),
          invites_sample |-> Sample(invites),
          requests_sample |-> Sample(reqs),
          assets_sample |-> Sample(assets)]
    ELSE [id |-> hid, name |-> hunt_name, meta |-> hmeta,
          counts |-> [members |-> Len(members_list), invites |-> Len(invites),
                      requests |-> Len(reqs)],
          members_sample |-> Sample(members_list),
          invites_sample |-> Sample(invites),
          requests_sample |-> Sample(reqs)]

AreaResult(rows, assets, summary) ==
    [rows |-> rows, assets |-> assets, summary |-> summary]

area_rows_InvitesFirst(mr, ir, rr) == ir \o mr \o rr

\* the three row loops append to one list: members, then invites, then
\* requests
area_rows(mr, ir, rr) == mr \o ir \o rr

(* process_hunt_area: om, oi, orq are the outcomes of the members, invites  *)
(* and requests GETs, oas those of the asset GETs.  The three fetches come  *)
(* first, then the three row loops, then the assets and the summary.        *)
process_hunt_area(active, club, om, oi, orq, oas, include_assets) ==
    LET huntarea_obj == IF Get(club, "huntarea", Null).t = "dict"
                        THEN Get(club, "huntarea", Null) ELSE Null
        hid == Or(Or(Get(club, "huntarea_id", Null), Get(club, "id", Null)),
                  IF huntarea_obj.t = "dict" THEN Get(huntarea_obj, "id", Null) ELSE Null)
        hmeta == Or(huntarea_obj, as_dict(club))
        hunt_name == Or(Or(Get(hmeta, "name", Null), Get(club, "name", Null)),
                        IF hid # Null
                        THEN Str(<<"A", "r", "e", "a", "-">> \o PyStr(hid))
                        ELSE Str(<<"A", "r", "e", "a", "-", "U", "n", "k", "n", "o", "w", "n">>))
    IN  IF hid = Null
        THEN [http |-> <<>>, ret |-> Returned(AreaResult(<<>>, <<>>, D(<<>>)))]
        ELSE LET fm == fetch_members_for_area(om, hid)
                 fi == fetch_invites_for_area(oi, hid)
                 fr == fetch_requests_for_area(orq, hid)
                 members_list == IF fm.val # Null THEN json_or_list_to_objects(fm.val) ELSE <<>>
                 invites == Or(fi.val, L(<<>>)).items
                 reqs == Or(fr.val, L(<<>>)).items
                 mr == member_rows(members_list, hid, hunt_name)
                 ir == invite_rows(invites, hid, hunt_name)
                 rr == request_rows(reqs, hid, hunt_name)
                 fetched == fm.http \o fi.http \o fr.http
             IN  IF mr.raised \/ ir.raised \/ rr.raised
                 THEN [http |-> fetched, ret |-> AttributeError]
                 ELSE LET fa == IF include_assets
                                THEN fetch_assets_for_area(active, oas, hid, hunt_name)
                                ELSE [http |-> <<>>, val |-> L(<<>>)]
                      IN  [http |-> fetched \o fa.http,
                           ret |-> Returned(AreaResult(
                               area_rows(mr.val, ir.val, rr.val), fa.val.items,
                               summary_entry(hid, hunt_name, hmeta, members_list,
                                   invites, reqs, fa.val.items, include_assets)))]

-----------------------------------------------------------------------------
(* Inputs of process_hunt_area *)

S1(c) == Str(<<c>>)

\* area descriptors as main's normalization hands them over
ClubNamed ==
    D(<<KV("huntarea_id", Str(<<"7", "c">>)),
        KV("huntarea", D(<<KV("id", Str(<<"7", "c">>)), KV("name", S1("c"))>>))>>)

ClubInt == D(<<KV("huntarea_id", Int(12)), KV("huntarea", D(<<KV("id", Int(12))>>))>>)

ClubZero == D(<<KV("huntarea_id", Int(0)), KV("huntarea", D(<<KV("id", Int(0))>>))>>)

ClubNoId == D(<<KV("huntarea_id", Null), KV("huntarea", D(<<KV("name", S1("c"))>>))>>)

ClubEmpty == D(<<KV("huntarea_id", Null), KV("huntarea", D(<<>>))>>)

ClubUnsafe ==
    D(<<KV("huntarea_id", S1("/")), KV("huntarea", D(<<KV("id", S1("/"))>>))>>)

ClubPadded ==
    D(<<KV("huntarea_id", Str(<<"7", " ">>)),
        KV("huntarea", D(<<KV("id", Str(<<"7", " ">>)), KV("name", S1("g"))>>))>>)

Clubs == {ClubNamed, ClubInt, ClubZero, ClubNoId, ClubEmpty, ClubUnsafe, ClubPadded}

MemberA ==
    D(<<KV("first_name", Str(<<" ", "c">>)), KV("last_name", S1("g")),
        KV("email", Str(<<"E", " ">>))>>)

MemberB == D(<<KV("email", S1("c"))>>)

MemberNullName == D(<<KV("first_name", Null), KV("email", S1("c"))>>)

WellFormedMemberBodies ==
    {L(<<>>), L(<<MemberA>>), L(<<MemberA, MemberB>>),
     D(<<KV("objects", L(<<MemberB>>))>>)}

\* no list and no objects envelope; elements that are no mappings; a null name
MalformedMemberBodies ==
    {Int(5), ErrorEnvelope, L(<<Int(5)>>), L(<<MemberNullName>>)}

InviteA ==
    D(<<KV("name", S1("c")), KV("email", Str(<<" ", "E">>)),
        KV("rank", D(<<KV("name", S1("g"))>>)), KV("date_joined", S1("7"))>>)

InviteB ==
    D(<<KV("full_name", S1("g")), KV("email", Null), KV("rank", Null),
        KV("role", S1("c"))>>)

InviteIntName == D(<<KV("name", Int(5)), KV("email", S1("c"))>>)

WellFormedInviteBodies == {L(<<>>), L(<<InviteA>>), L(<<InviteA, InviteB>>)}

MalformedInviteBodies ==
    {Int(5), ErrorEnvelope, L(<<Int(5)>>), L(<<InviteIntName>>)}

RequestA ==
    D(<<KV("profile", D(<<KV("first_name", S1("c")), KV("last_name", S1("g")),
                          KV("email", S1("E")), KV("id", Int(3))>>)),
        KV("rank", D(<<KV("name", S1("g"))>>)), KV("date_requested", S1("7"))>>)

RequestB ==
    D(<<KV("profile", D(<<KV("user", D(<<KV("username", S1("c")),
                                         KV("email", S1("e"))>>))>>))>>)

RequestIdOnly == D(<<KV("profile", D(<<KV("id", Int(3))>>))>>)

RequestNullEmail == D(<<KV("profile", D(<<KV("first_name", S1("c")), KV("email", Null)>>))>>)

RequestNullRank == D(<<KV("profile", D(<<KV("email", S1("e"))>>)),
                       KV("rank", D(<<KV("name", Null)>>))>>)

WellFormedRequestBodies ==
    {L(<<>>), L(<<RequestA>>), L(<<RequestB, RequestIdOnly>>)}

MalformedRequestBodies ==
    {Int(5), L(<<Int(5)>>), L(<<RequestNullEmail>>), L(<<RequestNullRank>>)}

FailedOutcomes == {Raised, Resp(404, ErrorEnvelope)}

MemberOutcomes ==
    FailedOutcomes \cup {Resp(200, b) : b \in WellFormedMemberBodies \cup MalformedMemberBodies}

InviteOutcomes ==
    FailedOutcomes \cup {Resp(200, b) : b \in WellFormedInviteBodies \cup MalformedInviteBodies}

RequestOutcomes ==
    FailedOutcomes \cup {Resp(200, b) : b \in WellFormedRequestBodies \cup MalformedRequestBodies}

AreaAssetOutcomes == {Raised, Resp(200, L(<<ARecord, Int(5)>>))}

ProcessHuntArea ==
    /\ op = "none"
    /\ \E club \in Clubs, om \in MemberOutcomes, oi \in InviteOutcomes,
          orq \in RequestOutcomes, include_assets \in BOOLEAN,
          oas \in [1..Len(ACTIVE_ASSET_ENDPOINTS) -> AreaAssetOutcomes] :
           LET r == process_hunt_area(ACTIVE_ASSET_ENDPOINTS, club, om, oi, orq,
                                      oas, include_assets)
           IN  /\ include_assets \/ \A i \in 1..Len(oas) : oas[i] = Raised
               /\ op' = "process_hunt_area"
               /\ arg' = [club |-> club, members |-> om, invites |-> oi,
                          requests |-> orq, include_assets |-> include_assets,
                          assets |-> oas]
               /\ http' = r.http
               /\ ret' = r.ret
               /\ UNCHANGED <<cookies, ACTIVE_ASSET_ENDPOINTS, files, mainVars, addVars>>

NextArea == ProcessHuntArea

SpecArea == InitCommon /\ [][NextArea]_vars

-----------------------------------------------------------------------------
(* C3, C4 *)

\* the three category requests were issued (an id was resolved and passed
\* the guard)
CategoriesFetched == op = "process_hunt_area" /\ Len(http) >= 3

\* the records a category's response carries; none when the fetch failed
NumRecords(o) ==
    IF RequestFailed(o) THEN 0 ELSE Len(json_or_list_to_objects(o.body))

SomeFetchFailed ==
    RequestFailed(arg.members) \/ RequestFailed(arg.invites) \/ RequestFailed(arg.requests)

(* C3: when one of the members, invites or requests fetches fails, the call *)
(* returns normally and the returned rows are exactly those of the records  *)
(* of the categories that succeeded (with invites failing: member records   *)
(* plus request records).                                                   *)
C3_FetchFailureIsolated ==
    (CategoriesFetched /\ SomeFetchFailed) =>
        /\ ~ret.raised
        /\ Len(ret.val.rows) =
               NumRecords(arg.members) + NumRecords(arg.invites) + NumRecords(arg.requests)

Malformed(o, bodies) == o.kind = "resp" /\ o.status < 400 /\ o.body \in bodies

RowsWithStatus(status) ==
    {i \in 1..Len(ret.val.rows) : ret.val.rows[i].status = status}

(* C4: a members, invites or requests body of an unexpected shape never     *)
(* makes process_hunt_area raise: the call returns, the category of that    *)
(* body contributes no row, and the summary is produced.                    *)
C4_MalformedShapeNeverRaises ==
    CategoriesFetched =>
        /\ (\/ Malformed(arg.members, MalformedMemberBodies)
            \/ Malformed(arg.invites, MalformedInviteBodies)
            \/ Malformed(arg.requests, MalformedRequestBodies)) => ~ret.raised
        /\ ~ret.raised =>
            /\ Malformed(arg.members, MalformedMemberBodies) => RowsWithStatus(StatusActive) = {}
            /\ Malformed(arg.invites, MalformedInviteBodies) => RowsWithStatus(StatusInvited) = {}
            /\ Malformed(arg.requests, MalformedRequestBodies) => RowsWithStatus(StatusRequested) = {}
            /\ ret.val.summary # D(<<>>)

-----------------------------------------------------------------------------
(* write_membership_matrix: the email x hunt-area pivot *)

\* the characters of the model in code point order
CodePoints ==
    <<" ", "-", ".", "/">> \o DigitChars \o <<"@">> \o Uppers \o <<"_">> \o Lowers

Ord(c) == CHOOSE i \in 1..Len(CodePoints) : CodePoints[i] = c

\* a < b of two str
RECURSIVE StrLess(_, _)
StrLess(a, b) ==
    IF a = <<>> THEN b # <<>>
    ELSE IF b = <<>> THEN FALSE
    ELSE IF Head(a) = Head(b) THEN StrLess(Tail(a), Tail(b))
    ELSE Ord(Head(a)) < Ord(Head(b))

\* sorted(S) of a set of str
RECURSIVE sorted(_)
sorted(S) ==
    IF S = {} THEN <<>>
    ELSE LET x == CHOOSE x \in S : \A y \in S : x = y \/ StrLess(x, y)
         IN  <<x>> \o sorted(S \ {x})

\* a pivot that writes the status as it is
capitalize_AsIs(s) == s

\* str.capitalize(): the first character upper-cased, the others lower-cased
capitalize(s) ==
    IF s = <<>> THEN <<>> ELSE <<UpperChar(Head(s))>> \o lower(Tail(s))

\* (row.get("email") or "").lower().strip()
normalize_email(row) == strip(lower(Or(row.email, EmptyStr).s))

No == <<"N", "o">>

EmailColumn == <<"e", "m", "a", "i", "l">>

\* a pivot that keeps the first status written to a cell
RECURSIVE Pivot_FirstWins(_, _)
Pivot_FirstWins(matrix, all_rows) ==
    IF all_rows = <<>> THEN matrix
    ELSE LET row == Head(all_rows)
             email == normalize_email(row)
             hname == row.huntarea_name
         IN  Pivot_FirstWins(
                 IF email # <<>> /\ hname.t = "str" /\ hname.s \in DOMAIN matrix[email]
                    /\ matrix[email][hname.s] = No
                 THEN [matrix EXCEPT ![email][hname.s] = capitalize(row.status.s)]
                 ELSE matrix,
                 Tail(all_rows))

\* the "for row in all_rows" loop that overwrites the "No" cells
RECURSIVE Pivot(_, _)
Pivot(matrix, all_rows) ==
    IF all_rows = <<>> THEN matrix
    ELSE LET row == Head(all_rows)
             email == normalize_email(row)
             hname == row.huntarea_name
         IN  Pivot(IF email # <<>> /\ hname.t = "str" /\ hname.s \in DOMAIN matrix[email]
                   THEN [matrix EXCEPT ![email][hname.s] = capitalize(row.status.s)]
                   ELSE matrix,
                   Tail(all_rows))

\* the table written: the header and one line per email
membership_matrix(all_rows) ==
    LET emails == sorted({normalize_email(all_rows[i]) :
                            i \in {j \in 1..Len(all_rows) : Truthy(all_rows[j].email)}})
        hunt_names == sorted({all_rows[i].huntarea_name.s :
                            i \in {j \in 1..Len(all_rows) : Truthy(all_rows[j].huntarea_name)}})
        names == {hunt_names[i] : i \in 1..Len(hunt_names)}
        fromkeys == [e \in {emails[i] : i \in 1..Len(emails)} |-> [n \in names |-> No]]
        matrix == Pivot(fromkeys, all_rows)
    IN  [fieldnames |-> <<EmailColumn>> \o hunt_names,
         rows |-> [i \in 1..Len(emails) |->
                     [email |-> emails[i], cells |-> matrix[emails[i]]]]]

\* open(path, "w") and write: the file is replaced
WriteFile(fs, path, content) ==
    {f \in fs : f.path # path} \cup {[path |-> path, content |-> content]}

write_membership_matrix(fs, all_rows, out_path) ==
    WriteFile(fs, out_path, membership_matrix(all_rows))

-----------------------------------------------------------------------------
(* Inputs of write_membership_matrix: rows as process_hunt_area builds     *)
(* them (the email stripped, in the upstream's casing; a non-empty area    *)
(* name; one of the three status literals).                                *)

\* how many rows the model hands to the pivot
MaxRows == 3

MatrixEmails == {<<"a">>, <<"A">>, <<"b">>}

MatrixAreas == {[id |-> Int(1), name |-> S1("X")], [id |-> Int(2), name |-> S1("Y")]}

MatrixRow(a, e, status) ==
    MembershipRow(a.id, a.name, EmptyStr, Str(e), EmptyStr, status, EmptyStr)

\* members and invites of both areas, a request without an email and a
\* request with one
MatrixRows ==
    {MatrixRow(a, e, st) :
        a \in MatrixAreas, e \in MatrixEmails, st \in {StatusActive, StatusInvited}}
    \cup {MatrixRow(a, <<>>, StatusRequested) : a \in {x \in MatrixAreas : x.id = Int(1)}}
    \cup {MatrixRow(a, <<"b">>, StatusRequested) : a \in {x \in MatrixAreas : x.id = Int(2)}}

OUT_MATRIX_CSV == "huntstand_membership_matrix.csv"

WriteMembershipMatrix ==
    /\ op = "none"
    /\ \E all_rows \in SeqsUpTo(MatrixRows, MaxRows) :
           /\ op' = "write_membership_matrix"
           /\ arg' = [all_rows |-> all_rows, out_path |-> OUT_MATRIX_CSV]
           /\ http' = <<>>
           /\ ret' = Returned(Null)
           /\ files' = write_membership_matrix(files, all_rows, OUT_MATRIX_CSV)
           /\ UNCHANGED <<cookies, ACTIVE_ASSET_ENDPOINTS, mainVars, addVars>>

NextMatrix == WriteMembershipMatrix

SpecMatrix == InitCommon /\ [][NextMatrix]_vars

-----------------------------------------------------------------------------
(* C10 *)

MatrixWritten == op = "write_membership_matrix"

\* the table in the file the call wrote
Table == (CHOOSE f \in files : f.path = arg.out_path).content

\* an email lower-cased and trimmed
LowerTrimmed(e) == lower(strip(e))

InputEmails ==
    {LowerTrimmed(arg.all_rows[j].email.s) : j \in 1..Len(arg.all_rows)} \ {<<>>}

InputAreas ==
    {arg.all_rows[j].huntarea_name.s : j \in 1..Len(arg.all_rows)} \ {<<>>}

\* the input rows that relate an email to an area
Relating(e, n) ==
    {j \in 1..Len(arg.all_rows) :
        /\ LowerTrimmed(arg.all_rows[j].email.s) = e
        /\ arg.all_rows[j].huntarea_name.s = n}

\* first letter upper-cased, rest unchanged
FirstUpper(s) == IF s = <<>> THEN <<>> ELSE <<UpperChar(Head(s))>> \o Tail(s)

-----------------------------------------------------------------------------
(* C11 *)

\* the largest index of a non-empty set of row indexes
LastOf(S) == CHOOSE j \in S : \A k \in S : k <= j

\* the place of a status in the order process_hunt_area emits an area's rows:
\* members, then invites, then requests
EmitRank(status) ==
    CASE status = StatusActive -> 1
      [] status = StatusInvited -> 2
      [] status = StatusRequested -> 3

\* the rows of every single area come as members, then invites, then requests
InEmissionOrder(all_rows) ==
    \A i \in 1..Len(all_rows), j \in 1..Len(all_rows) :
        (i < j /\ all_rows[i].huntarea_name = all_rows[j].huntarea_name)
            => EmitRank(all_rows[i].status) <= EmitRank(all_rows[j].status)

\* the capitalized status of the latest category among the relating rows
LatestCategory(rel) ==
    IF \E j \in rel : arg.all_rows[j].status = StatusRequested
    THEN FirstUpper(StatusRequested.s)
    ELSE IF \E j \in rel : arg.all_rows[j].status = StatusInvited
         THEN FirstUpper(StatusInvited.s)
         ELSE FirstUpper(StatusActive.s)

(* C11: a cell of the matrix whose (email, area) pair occurs in several    *)
(* rows holds the status of the last such row; when an area's rows come as *)
(* members, then invites, then requests, a request overrides an invite,    *)
(* which overrides an active membership of the same email.                 *)
C11_LastWriteWins ==
    MatrixWritten =>
        \A i \in 1..Len(Table.rows) : \A n \in InputAreas :
            LET rel == Relating(Table.rows[i].email, n)
                cell == Table.rows[i].cells[n]
            IN  rel # {} =>
                  /\ cell = FirstUpper(arg.all_rows[LastOf(rel)].status.s)
                  /\ InEmissionOrder(arg.all_rows) => cell = LatestCategory(rel)

\* one email is a member of an area, invited to it and requesting it, in
\* that order, and the cell reads "Requested"
C11_Witness ==
    /\ MatrixWritten
    /\ InEmissionOrder(arg.all_rows)
    /\ \E i \in 1..Len(Table.rows), n \in InputAreas :
          /\ Cardinality(Relating(Table.rows[i].email, n)) = 3
          /\ arg.all_rows[1].status = StatusActive
          /\ arg.all_rows[2].status = StatusInvited
          /\ Table.rows[i].cells[n] = FirstUpper(StatusRequested.s)

-----------------------------------------------------------------------------
(* json_or_list_to_objects on its own *)

PayloadKeys == {"objects", "a", "detail"}

PayloadValues == {Null, Int(1), ARecord, L(<<>>), L(<<ARecord>>)}

\* mappings of at most MaxItems entries, in every insertion order
PayloadDicts ==
    {D(kv) : kv \in {s \in SeqsUpTo({KV(k, v) : k \in PayloadKeys, v \in PayloadValues}, MaxItems) :
                        \A i \in 1..Len(s), j \in 1..Len(s) : i # j => s[i].k # s[j].k}}

PayloadLists == {L(items) : items \in SeqsUpTo({Null, Int(1), ARecord, L(<<>>)}, MaxItems)}

Payloads == {Null, Int(5), S1("c")} \cup PayloadLists \cup PayloadDicts

JsonOrListToObjects ==
    /\ op = "none"
    /\ \E payload \in Payloads :
           /\ op' = "json_or_list_to_objects"
           /\ arg' = [payload |-> payload]
           /\ http' = <<>>
           /\ ret' = Returned(L(json_or_list_to_objects(payload)))
           /\ UNCHANGED <<cookies, ACTIVE_ASSET_ENDPOINTS, files, mainVars, addVars>>

NextNormalize == JsonOrListToObjects

SpecNormalize == InitCommon /\ [][NextNormalize]_vars

-----------------------------------------------------------------------------
(* C12 *)

Normalized == op = "json_or_list_to_objects"

\* the value stored under "objects", when the mapping has one
ObjectsEntry(payload) ==
    {payload.kv[i].v : i \in {j \in 1..Len(payload.kv) : payload.kv[j].k = "objects"}}

HasObjectsList(payload) ==
    payload.t = "dict" /\ \E v \in ObjectsEntry(payload) : v.t = "list"

(* C12: json_or_list_to_objects returns a bare list itself, the "objects"  *)
(* list of a mapping whose "objects" entry is a list, the list of the      *)
(* values of any other mapping, and the empty list for None.               *)
C12_NormalizerShapes ==
    Normalized =>
        /\ arg.payload.t = "list" => ret.val = arg.payload
        /\ HasObjectsList(arg.payload) => ret.val \in ObjectsEntry(arg.payload)
        /\ (arg.payload.t = "dict" /\ ~HasObjectsList(arg.payload)) =>
               /\ ret.val.t = "list"
               /\ Len(ret.val.items) = Len(arg.payload.kv)
               /\ \A i \in 1..Len(arg.payload.kv) : ret.val.items[i] = arg.payload.kv[i].v
        /\ arg.payload = Null => ret.val = L(<<>>)

\* a mapping that holds the envelope next to another entry: only the
\* "objects" list comes back
C12_Witness ==
    /\ Normalized
    /\ HasObjectsList(arg.payload)
    /\ Len(arg.payload.kv) = 2
    /\ ret.val = L(<<ARecord>>)

-----------------------------------------------------------------------------
(* main: the session's credentials                                         *)
(*                                                                          *)
(* A cookie value is a string, "" standing for None and for the empty       *)
(* string alike: the code tests these values for truth only.                *)

\* a or b
OrS(a, b) == IF a # "" THEN a ELSE b

\* the cookie file cannot be opened or holds no JSON
Unreadable == [t |-> "unreadable"]

\* the mapping json.load returned, "" for a key it lacks
CookieData(sessionid, session_id, sessionId, csrftoken, csrf, csrftoken_cookie) ==
    [t |-> "data", sessionid |-> sessionid, session_id |-> session_id,
     sessionId |-> sessionId, csrftoken |-> csrftoken, csrf |-> csrf,
     csrftoken_cookie |-> csrftoken_cookie]

\* (None, None) when anything raises
load_cookies_from_file(data) ==
    IF data.t = "unreadable"
    THEN [sid |-> "", csrft |-> ""]
    ELSE [sid |-> OrS(OrS(data.sessionid, data.session_id), data.sessionId),
          csrft |-> OrS(OrS(data.csrftoken, data.csrf), data.csrftoken_cookie)]

\* the jar of the new session: a cookie is set for each value that is truthy
create_session_from_cookies(sessionid, csrftoken) ==
    [sessionid |-> sessionid, csrftoken |-> csrftoken]

\* sessionid = ENV_SESSIONID; if args.cookies_file: sessionid = sessionid or sidf
session_credentials(ENV_SESSIONID, ENV_CSRFTOKEN, cookies_file, data) ==
    LET f == load_cookies_from_file(data)
    IN  IF cookies_file
        THEN create_session_from_cookies(OrS(ENV_SESSIONID, f.sid),
                                         OrS(ENV_CSRFTOKEN, f.csrft))
        ELSE create_session_from_cookies(ENV_SESSIONID, ENV_CSRFTOKEN)

-----------------------------------------------------------------------------
(* main: the TLS reachability probe                                        *)

\* needle in hay, of two str
Contains(needle, hay) ==
    \E i \in 1..(Len(hay) - Len(needle) + 1) :
        SubSeq(hay, i, i + Len(needle) - 1) = needle

\* the outcome of session.get(BASE_URL + "/"): a response, or a
\* RequestException of a class (name) with a text (message); cookies the
\* exchange stored in the jar
ProbeOutcome(kind, name, message, set_session, set_csrf) ==
    [kind |-> kind, name |-> name, message |-> message,
     set_session |-> set_session, set_csrf |-> set_csrf]

\* "SSL" in str(type(e).__name__) or "ssl" in str(e).lower()
LooksLikeSsl(e) ==
    \/ Contains(<<"S", "S", "L">>, e.name)
    \/ Contains(<<"s", "s", "l">>, lower(e.message))

\* session.verify after the probe
verify_after_probe(v, o) == IF o.kind = "raise" /\ LooksLikeSsl(o) THEN FALSE ELSE v

\* a request as the session sends it: with the session's verify setting
Sent(reqs, v) == [i \in 1..Len(reqs) |-> [req |-> reqs[i], verify |-> v]]

-----------------------------------------------------------------------------
(* main: inputs of the start of a run                                      *)

\* the argparse namespace with every option at its default
ArgsDefault ==
    [dry_run |-> FALSE, cookies_file |-> FALSE, no_login_fallback |-> FALSE,
     profile_id |-> Null, include_assets |-> FALSE, dynamic_assets |-> FALSE,
     assets_extra |-> <<>>, parallel |-> FALSE, format |-> "all"]

\* --assets-extra: absent, or a spec without a colon, one with an empty
\* type and a well-formed one
ExtraSpecs ==
    {<<>>, <<<<"x", "u">>, <<" ", ":", "u">>, <<"x", ":", " ", "/", "u">>>>}

Formats == {"all", "csv", "json"}

\* the command lines that vary the credential options
CredentialArgs ==
    {[ArgsDefault EXCEPT !.cookies_file = cf, !.no_login_fallback = nlf] :
        cf \in BOOLEAN, nlf \in BOOLEAN}

\* the command lines that vary the other options: the asset options with
\* and without --parallel, --format, --profile-id, --dry-run
OtherArgs ==
    {[ArgsDefault EXCEPT !.include_assets = TRUE, !.dynamic_assets = d,
                         !.assets_extra = x, !.parallel = p] :
        d \in BOOLEAN, x \in ExtraSpecs, p \in BOOLEAN}
    \cup {[ArgsDefault EXCEPT !.format = f] : f \in Formats \ {"all"}}
    \cup {[ArgsDefault EXCEPT !.parallel = TRUE],
          [ArgsDefault EXCEPT !.profile_id = S1("7")],
          [ArgsDefault EXCEPT !.dry_run = TRUE]}

EnvSessionIds == {"", "env-sid"}

EnvCsrfTokens == {"", "env-csrf"}

\* an unreadable file, {}, both cookies under their own keys, the session
\* id alone under an alias key
CookieFiles ==
    {Unreadable, CookieData("", "", "", "", "", ""),
     CookieData("file-sid", "", "", "file-csrf", "", ""),
     CookieData("", "file-sid", "", "", "", "")}

SSLErrorName == <<"S", "S", "L", "E", "r", "r", "o", "r">>

ConnectionErrorName ==
    <<"C", "o", "n", "n", "e", "c", "t", "i", "o", "n", "E", "r", "r", "o", "r">>

\* a response that stores nothing, a response that stores an anonymous
\* session, a certificate failure, a refused connection, and a refused
\* connection to a host whose name holds "ssl" (the text of a
\* ConnectionError names the host of HUNTSTAND_BASE_URL)
RootProbeOutcomes ==
    {ProbeOutcome("resp", <<>>, <<>>, "", ""),
     ProbeOutcome("resp", <<>>, <<>>, "anon-1", "csrf-1"),
     ProbeOutcome("raise", SSLErrorName, <<"c", "e", "r", "t">>, "", ""),
     ProbeOutcome("raise", ConnectionErrorName, <<"r", "e", "f", "u", "s", "e", "d">>, "", ""),
     ProbeOutcome("raise", ConnectionErrorName, <<"S", "s", "l", ".", "x">>, "", "")}

\* a run: its command line, the cookies of its environment and its cookie file
Run(a, sid, csrf, data) ==
    [args |-> a, ENV_SESSIONID |-> sid, ENV_CSRFTOKEN |-> csrf, file |-> data]

\* the runs of the model: the credential options with every combination of
\* the two cookie sources; the other options with both cookies in the
\* environment
MainRuns ==
    {Run(a, sid, csrf, data) :
        a \in {x \in CredentialArgs : x.cookies_file}, sid \in EnvSessionIds,
        csrf \in EnvCsrfTokens, data \in CookieFiles}
    \cup {Run(a, sid, csrf, Unreadable) :
        a \in {x \in CredentialArgs : ~x.cookies_file}, sid \in EnvSessionIds,
        csrf \in EnvCsrfTokens}
    \cup {Run(a, "env-sid", "env-csrf", Unreadable) : a \in OtherArgs}

EnvCredentials ==
    {[user |-> "", pass |-> ""], [user |-> "user@example.com", pass |-> ""],
     [user |-> "user@example.com", pass |-> "pass"]}

\* the root GET of the login exchange stores a CSRF cookie or raises; a
\* POST stores a session, is refused, or raises
MainLoginGets == {Exchange("resp", 200, "", "csrf-1"), Exchange("raise", 0, "", "")}

MainLoginPosts ==
    {Exchange("resp", 200, "sess-123", ""), Exchange("resp", 403, "", ""),
     Exchange("raise", 0, "", "")}

-----------------------------------------------------------------------------
(* main, step by step.  op is "main" once a run has started, pc the         *)
(* statement the run is at, arg the inputs of the step taken last, http     *)
(* every request the run has sent (with the verify setting of the session   *)
(* that sent it), ret the exit code once the run has returned.              *)

\* lines 885-904: the dry-run exit, else the session and its cookies
MainStart ==
    /\ pc = "start"
    /\ op = "none"
    /\ \E run \in MainRuns :
           /\ op' = "main"
           /\ args' = run.args
           /\ arg' = [step |-> "start", ENV_SESSIONID |-> run.ENV_SESSIONID,
                      ENV_CSRFTOKEN |-> run.ENV_CSRFTOKEN, file |-> run.file]
           /\ IF run.args.dry_run
              THEN /\ pc' = "done"
                   /\ ret' = Returned(Int(0))
                   /\ UNCHANGED cookies
              ELSE /\ pc' = "probe"
                   /\ cookies' = session_credentials(run.ENV_SESSIONID,
                                     run.ENV_CSRFTOKEN, run.args.cookies_file, run.file)
                   /\ UNCHANGED ret
           /\ verify' = TRUE
           /\ UNCHANGED <<http, ACTIVE_ASSET_ENDPOINTS, files, normalized_clubs,
                          main_rows, main_assets, main_summary, futures, club_index, addVars>>

\* lines 913-923
MainProbe ==
    /\ pc = "probe"
    /\ \E o \in RootProbeOutcomes :
           /\ arg' = [step |-> "probe", probe |-> o]
           /\ http' = http \o Sent(<<GetReq(ROOT_PATH, NoId)>>, verify)
           /\ cookies' = StoreCookies(cookies, o)
           /\ verify' = verify_after_probe(verify, o)
           /\ pc' = "auth"
           /\ UNCHANGED <<op, ret, ACTIVE_ASSET_ENDPOINTS, files, args,
                          normalized_clubs, main_rows, main_assets,
                          main_summary, futures, club_index, addVars>>

\* if not session.cookies.get("sessionid"): if args.no_login_fallback: return 2
AbortsWithoutSession_Always(jar, a) == jar.sessionid = ""

AbortsWithoutSession(jar, a) == jar.sessionid = "" /\ a.no_login_fallback

\* lines 926-945
MainAuth ==
    /\ pc = "auth"
    /\ \/ /\ cookies.sessionid # ""
          /\ arg' = [step |-> "auth", login |-> FALSE]
          /\ pc' = "gather"
          /\ UNCHANGED <<http, ret, cookies>>
       \/ /\ AbortsWithoutSession(cookies, args)
          /\ arg' = [step |-> "auth", login |-> FALSE]
          /\ pc' = "done"
          /\ ret' = Returned(Int(2))
          /\ UNCHANGED <<http, cookies>>
       \/ /\ cookies.sessionid = ""
          /\ ~AbortsWithoutSession(cookies, args)
          /\ \E env \in EnvCredentials, g \in MainLoginGets,
                posts \in [1..2 -> MainLoginPosts] :
                 IF env.user # "" /\ env.pass # ""
                 THEN LET r == attempt_login(cookies, g, posts, env.user, env.pass)
                      IN  /\ arg' = [step |-> "auth", login |-> TRUE,
                                     ENV_USER |-> env.user, ENV_PASS |-> env.pass,
                                     ok |-> r.ok]
                          /\ http' = http \o Sent(r.http, verify)
                          /\ cookies' = r.jar
                          /\ pc' = "gather"
                          /\ UNCHANGED ret
                 ELSE /\ arg' = [step |-> "auth", login |-> FALSE,
                                 ENV_USER |-> env.user, ENV_PASS |-> env.pass]
                      /\ pc' = "gather"
                      /\ UNCHANGED <<http, ret, cookies>>
    /\ UNCHANGED <<op, ACTIVE_ASSET_ENDPOINTS, files, args, verify,
                   normalized_clubs, main_rows, main_assets, main_summary,
                   futures, club_index, addVars>>

-----------------------------------------------------------------------------
(* main: area discovery, the asset endpoint list                           *)

\* lines 953-963, for an entry that is a dict
normalize_club(c) ==
    LET hunt_dict == IF Get(c, "huntarea", Null).t = "dict"
                     THEN Get(c, "huntarea", Null) ELSE Null
    IN  IF hunt_dict # Null
        THEN D(<<KV("huntarea_id", Or(Get(c, "huntarea_id", Null),
                                      Get(as_dict(hunt_dict), "id", Null))),
                 KV("huntarea", as_dict(hunt_dict))>>)
        ELSE IF Truthy(Get(c, "id", Null)) /\ Truthy(Get(c, "name", Null))
             THEN D(<<KV("huntarea_id", Get(c, "id", Null)), KV("huntarea", c)>>)
             ELSE D(<<KV("huntarea_id", Or(Get(c, "huntarea_id", Null),
                                           Get(c, "id", Null))),
                      KV("huntarea", as_dict(c))>>)

RECURSIVE NormalizeLoop(_)
NormalizeLoop(items) ==
    IF items = <<>>
    THEN <<>>
    ELSE (IF Head(items).t = "dict" THEN <<normalize_club(Head(items))>> ELSE <<>>)
         \o NormalizeLoop(Tail(items))

\* for c in clubs: iterating a dict or a str yields strings, which are skipped
normalize_clubs(clubs) ==
    IF clubs.t = "list" THEN NormalizeLoop(clubs.items) ELSE <<>>

\* lines 971-974
sample_id_of(first_club) ==
    Or(Or(Get(first_club, "huntarea_id", Null), Get(first_club, "id", Null)),
       IF Get(first_club, "huntarea", Null).t = "dict"
       THEN Get(Get(first_club, "huntarea", Null), "id", Null) ELSE Null)

\* spec.split(":", 1): the text before and after the first colon
RECURSIVE BeforeColon(_)
BeforeColon(spec) ==
    IF spec = <<>> \/ Head(spec) = ":" THEN <<>> ELSE <<Head(spec)>> \o BeforeColon(Tail(spec))

RECURSIVE AfterColon(_)
AfterColon(spec) ==
    IF spec = <<>> THEN <<>>
    ELSE IF Head(spec) = ":" THEN Tail(spec) ELSE AfterColon(Tail(spec))

\* a str of the model (a sequence of characters) as an endpoint's text
RECURSIVE Text(_)
Text(s) == IF s = <<>> THEN "" ELSE Head(s) \o Text(Tail(s))

\* lines 979-987: the endpoints appended for the --assets-extra specs
RECURSIVE ExtraEndpoints(_)
ExtraEndpoints(specs) ==
    IF specs = <<>>
    THEN <<>>
    ELSE LET spec == Head(specs)
             atype == strip(BeforeColon(spec))
             urltmpl == strip(AfterColon(spec))
         IN  (IF Contains(<<":">>, spec) /\ atype # <<>> /\ urltmpl # <<>>
              THEN <<Endpoint(Text(atype), Text(urltmpl))>> ELSE <<>>)
             \o ExtraEndpoints(Tail(specs))

-----------------------------------------------------------------------------
(* main: inputs of discovery and of the probes                             *)

\* most areas with an identifier a listing holds
MaxAreas == 2

AreaX == D(<<KV("id", Int(1)), KV("name", S1("X"))>>)

AreaY == D(<<KV("huntarea_id", Int(2)), KV("huntarea", D(<<KV("name", S1("Y"))>>))>>)

AreaZ == D(<<KV("id", Int(3)), KV("name", S1("Z"))>>)

\* an entry without any identifier
AreaNoId == D(<<KV("name", S1("c"))>>)

AllAreas == <<AreaX, AreaY, AreaZ>>

\* the listings of the model: the first areas of AllAreas, and a listing
\* led by an entry without an identifier and an entry that is no mapping
Listings ==
    {SubSeq(AllAreas, 1, n) : n \in 0..Min(MaxAreas, Len(AllAreas))}
    \cup {<<AreaNoId, Int(5), AreaX>>}

MainProfileOutcomes ==
    {Raised, Resp(200, HuntAreas(Null))} \cup {Resp(200, HuntAreas(L(l))) : l \in Listings}

MainByProfileOutcomes == {Raised, Resp(200, L(<<AreaX>>))}

\* every probe usable, none usable, the first alone usable
RefineScenarios(n) ==
    {[i \in 1..n |-> Resp(200, L(<<ARecord>>))], [i \in 1..n |-> Raised],
     [i \in 1..n |-> IF i = 1 THEN Resp(200, L(<<ARecord>>)) ELSE Raised]}

-----------------------------------------------------------------------------
(* main: discovery and the writes of the active endpoint list              *)

\* lines 948-967: a TypeError of gather_huntareas leaves main
MainGather ==
    /\ pc = "gather"
    /\ \E o1 \in MainProfileOutcomes, o2 \in MainByProfileOutcomes :
           LET r == gather_huntareas(o1, o2, args.profile_id)
           IN  /\ Len(r.http) = 2 \/ o2 = Raised
               /\ arg' = [step |-> "gather", primary |-> o1, fallback |-> o2]
               /\ http' = http \o Sent(r.http, verify)
               /\ IF r.ret.raised
                  THEN /\ pc' = "done"
                       /\ ret' = r.ret
                       /\ UNCHANGED normalized_clubs
                  ELSE /\ pc' = "refine"
                       /\ normalized_clubs' = normalize_clubs(r.ret.val)
                       /\ UNCHANGED ret
    /\ UNCHANGED <<op, cookies, ACTIVE_ASSET_ENDPOINTS, files, args, verify,
                   main_rows, main_assets, main_summary, futures, club_index, addVars>>

\* lines 970-976
MainRefine ==
    /\ pc = "refine"
    /\ IF /\ args.include_assets
          /\ args.dynamic_assets
          /\ normalized_clubs # <<>>
          /\ Truthy(sample_id_of(normalized_clubs[1]))
       THEN \E os \in RefineScenarios(Len(ACTIVE_ASSET_ENDPOINTS)) :
                LET r == refine_active_asset_endpoints(ACTIVE_ASSET_ENDPOINTS, os,
                             sample_id_of(normalized_clubs[1]))
                IN  /\ arg' = [step |-> "refine", os |-> os]
                    /\ http' = http \o Sent(r.http, verify)
                    /\ ACTIVE_ASSET_ENDPOINTS' = r.active
       ELSE /\ arg' = [step |-> "refine", os |-> <<>>]
            /\ UNCHANGED <<http, ACTIVE_ASSET_ENDPOINTS>>
    /\ pc' = "extra"
    /\ UNCHANGED <<op, ret, cookies, files, args, verify, normalized_clubs,
                   main_rows, main_assets, main_summary, futures, club_index, addVars>>

\* lines 978-990: the extra endpoints, then the choice of the mode
MainExtra ==
    /\ pc = "extra"
    /\ arg' = [step |-> "extra"]
    /\ ACTIVE_ASSET_ENDPOINTS' =
           ACTIVE_ASSET_ENDPOINTS \o ExtraEndpoints(args.assets_extra)
    /\ pc' = IF args.parallel /\ Len(normalized_clubs) > 1 THEN "submit" ELSE "loop"
    /\ UNCHANGED <<op, http, ret, cookies, files, args, verify, normalized_clubs,
                   main_rows, main_assets, main_summary, futures, club_index, addVars>>

-----------------------------------------------------------------------------
(* main: the areas, one after the other or by workers                      *)

\* what the upstream answers for one area: the members, invites and
\* requests GETs, and every asset GET
AreaScenario(om, oi, orq, oa) == [om |-> om, oi |-> oi, orq |-> orq, oa |-> oa]

ScenarioGood ==
    AreaScenario(Resp(200, L(<<MemberA>>)), Resp(200, L(<<InviteA>>)),
                 Resp(200, L(<<RequestA>>)), Resp(200, L(<<ARecord, Int(5)>>)))

\* the invites GET and the asset GETs raise
ScenarioInvitesFail ==
    AreaScenario(Resp(200, L(<<MemberA>>)), Raised, Resp(200, L(<<RequestA>>)), Raised)

\* the members list holds an element that is no mapping
ScenarioMalformed ==
    AreaScenario(Resp(200, L(<<Int(5)>>)), Resp(200, L(<<InviteA>>)),
                 Resp(200, L(<<RequestA>>)), Raised)

AreaScenarios == {ScenarioGood, ScenarioInvitesFail, ScenarioMalformed}

\* process_hunt_area(session, club, args.include_assets) under a scenario
RunArea(club, sc) ==
    process_hunt_area(ACTIVE_ASSET_ENDPOINTS, club, sc.om, sc.oi, sc.orq,
                      [i \in 1..Len(ACTIVE_ASSET_ENDPOINTS) |-> sc.oa],
                      args.include_assets)

\* if summary_entry: summary["hunt_areas"].append(summary_entry)
\* a summary entry is a record of the model, the empty one the empty dict
AppendSummary(s, entry) ==
    IF "t" \in DOMAIN entry /\ ~Truthy(entry) THEN s ELSE Append(s, entry)

\* all_rows, all_assets and summary["hunt_areas"]
Aggregate(rows, assets, hunt_areas) ==
    [rows |-> rows, assets |-> assets, hunt_areas |-> hunt_areas]

\* lines 1004-1007 and 1013-1016: the result of an area joins the aggregate
Absorb_InFront(acc, val) ==
    Aggregate(val.rows \o acc.rows, val.assets \o acc.assets,
              AppendSummary(acc.hunt_areas, val.summary))

Absorb(acc, val) ==
    Aggregate(acc.rows \o val.rows, acc.assets \o val.assets,
              AppendSummary(acc.hunt_areas, val.summary))

\* lines 1002-1009: fut.result() raises what the worker raised; the except
\* clause logs it and the loop goes on
collect_result_Resets(acc, r) ==
    IF r.raised THEN Aggregate(<<>>, <<>>, <<>>) ELSE Absorb(acc, r.val)

collect_result_Overwrites(acc, r) ==
    IF r.raised THEN acc ELSE Absorb(Aggregate(<<>>, <<>>, <<>>), r.val)

collect_result(acc, r) == IF r.raised THEN acc ELSE Absorb(acc, r.val)

\* fetch_assets_for_area iterates ACTIVE_ASSET_ENDPOINTS and assigns nothing
active_after_fetch_Narrowed(active) == SubSeq(active, 1, 1)

active_after_fetch(active) == active

\* the scenario as arg records it: none when the area sent no request
Used(r, sc) == IF r.http = <<>> THEN [om |-> "unused"] ELSE sc

\* lines 1011-1016: one pass of the for loop; an exception of
\* process_hunt_area leaves main
MainLoop ==
    /\ pc = "loop"
    /\ club_index < Len(normalized_clubs)
    /\ \E sc \in AreaScenarios :
           LET r == RunArea(normalized_clubs[club_index + 1], sc)
           IN  /\ arg' = [step |-> "area", index |-> club_index + 1,
                          scenario |-> Used(r, sc)]
               /\ http' = http \o Sent(r.http, verify)
               /\ IF r.ret.raised
                  THEN /\ pc' = "done"
                       /\ ret' = r.ret
                       /\ UNCHANGED <<main_rows, main_assets, main_summary, club_index>>
                  ELSE LET acc == Absorb(Aggregate(main_rows, main_assets, main_summary),
                                         r.ret.val)
                       IN  /\ pc' = "loop"
                           /\ main_summary' = acc.hunt_areas
                           /\ main_rows' = acc.rows
                           /\ main_assets' = acc.assets
                           /\ club_index' = club_index + 1
                           /\ UNCHANGED ret
    /\ ACTIVE_ASSET_ENDPOINTS' = active_after_fetch(ACTIVE_ASSET_ENDPOINTS)
    /\ UNCHANGED <<op, cookies, files, args, verify, normalized_clubs, futures, addVars>>

(* Session objects.  A session has an identity (id), a cookie jar, headers   *)
(* and a verify setting.  The session main built has id 0 and its state is  *)
(* in the variables cookies and verify; the session of a worker is held by  *)
(* its future.  A change of a session object shows in every holder of that  *)
(* identity.                                                                *)

\* make_session_with_retries: the headers of a new session
SessionHeaders ==
    [User_Agent |-> "Mozilla/5.0 (compatible; HuntStandExporter/1.0)",
     X_Requested_With |-> "XMLHttpRequest", Referer |-> "/",
     Accept |-> "application/json, text/javascript, */*; q=0.01"]

SessionObject(id, jar, headers, v) ==
    [id |-> id, cookies |-> jar, headers |-> headers, verify |-> v]

\* the session main passes to _clone_session
ParentSession == SessionObject(0, cookies, SessionHeaders, verify)

\* _clone_session: a new session (id) with the parent's header values,
\* cookie values and verify setting
clone_session_ReturnsParent(parent, id) == parent

clone_session(parent, id) ==
    SessionObject(id, parent.cookies, parent.headers, parent.verify)

\* a cookie a response of the area's requests stores ("" for none); the
\* runs without --include-assets are the ones drawn with such a response
WorkerCookies(a) == IF a.include_assets THEN {""} ELSE {"", "w-csrf"}

\* the session object a future holds, as it is now
SessionOf(f) == IF f.session.id = 0 THEN ParentSession ELSE f.session

\* the futures after the session with this identity stored a cookie
StoreInSession(fs, id, c) ==
    [j \in 1..Len(fs) |->
        IF fs[j].session.id = id
        THEN [fs[j] EXCEPT !.session.cookies = StoreCookies(@, c)]
        ELSE fs[j]]

\* a future: the worker's session, whether the worker has run, whether main
\* has taken its result
Future(session, state, result) ==
    [session |-> session, state |-> state, result |-> result]

\* lines 996-1000: submit_club for the next area
MainSubmit ==
    /\ pc = "submit"
    /\ Len(futures) < Len(normalized_clubs)
    /\ arg' = [step |-> "submit", index |-> Len(futures) + 1]
    /\ futures' = Append(futures,
                         Future(clone_session(ParentSession, Len(futures) + 1),
                                "running", Returned(Null)))
    /\ UNCHANGED <<op, http, ret, cookies, ACTIVE_ASSET_ENDPOINTS, files, pc, args,
                   verify, normalized_clubs, main_rows, main_assets,
                   main_summary, club_index, addVars>>

\* a worker thread runs process_hunt_area to its end
WorkerRun ==
    /\ pc = "submit"
    /\ \E i \in 1..Len(futures), sc \in AreaScenarios, c \in WorkerCookies(args) :
           LET r == RunArea(normalized_clubs[i], sc)
               set == Exchange("resp", 200, "", IF r.http = <<>> THEN "" ELSE c)
               id == futures[i].session.id
           IN  /\ futures[i].state = "running"
               /\ arg' = [step |-> "worker", index |-> i, scenario |-> Used(r, sc),
                          set_csrf |-> set.set_csrf]
               /\ http' = http \o Sent(r.http, SessionOf(futures[i]).verify)
               /\ futures' = [StoreInSession(futures, id, set)
                                 EXCEPT ![i].state = "finished", ![i].result = r.ret]
               /\ cookies' = IF id = 0 THEN StoreCookies(cookies, set) ELSE cookies
    /\ ACTIVE_ASSET_ENDPOINTS' = active_after_fetch(ACTIVE_ASSET_ENDPOINTS)
    /\ UNCHANGED <<op, ret, files, pc, args, verify, normalized_clubs,
                   main_rows, main_assets, main_summary, club_index, addVars>>

\* lines 1001-1009: as_completed hands over a finished future; an exception
\* of the worker is caught and logged
MainCollect ==
    /\ pc = "submit"
    /\ Len(futures) = Len(normalized_clubs)
    /\ \E i \in 1..Len(futures) :
           LET acc == collect_result(Aggregate(main_rows, main_assets, main_summary),
                                     futures[i].result)
           IN  /\ futures[i].state = "finished"
               /\ arg' = [step |-> "collect", index |-> i]
               /\ futures' = [futures EXCEPT ![i].state = "collected"]
               /\ main_summary' = acc.hunt_areas
               /\ main_rows' = acc.rows
               /\ main_assets' = acc.assets
    /\ UNCHANGED <<op, http, ret, cookies, ACTIVE_ASSET_ENDPOINTS, files, pc, args,
                   verify, normalized_clubs, club_index, addVars>>

-----------------------------------------------------------------------------
(* main: the output files.  --per-hunt stays at its default (off) in the    *)
(* command lines of the model.                                              *)

OUT_DETAILED_CSV == "huntstand_members_detailed.csv"

OUT_JSON == "huntstand_summary.json"

OUT_ASSETS_CSV == "huntstand_assets_detailed.csv"

DetailedColumns ==
    <<"huntarea_id", "huntarea_name", "name", "email", "rank", "status", "date_joined">>

write_detailed_csv(fs, rows, out_path) ==
    WriteFile(fs, out_path, [header |-> DetailedColumns, rows |-> rows])

write_json_summary(fs, hunt_areas, out_path) ==
    WriteFile(fs, out_path, [hunt_areas |-> hunt_areas])

write_assets_csv(fs, asset_rows, out_path) ==
    WriteFile(fs, out_path, [asset_rows |-> asset_rows])

\* lines 1020-1034
write_outputs(fs, a, rows, assets, hunt_areas) ==
    LET f1 == IF a.format \in {"all", "csv"}
              THEN write_detailed_csv(fs, rows, OUT_DETAILED_CSV) ELSE fs
        f2 == IF a.format \in {"all", "json"}
              THEN write_json_summary(f1, hunt_areas, OUT_JSON) ELSE f1
        f3 == IF a.format \in {"all", "csv"}
              THEN write_membership_matrix(f2, rows, OUT_MATRIX_CSV) ELSE f2
    IN  IF a.format \in {"all", "csv"} /\ a.include_assets
        THEN write_assets_csv(f3, assets, OUT_ASSETS_CSV) ELSE f3

\* the loop over the areas, or the collection of the workers, has ended
AreasDone ==
    \/ pc = "loop" /\ club_index = Len(normalized_clubs)
    \/ /\ pc = "submit"
       /\ Len(futures) = Len(normalized_clubs)
       /\ \A i \in 1..Len(futures) : futures[i].state = "collected"

\* lines 1018-1039
MainWrite ==
    /\ AreasDone
    /\ arg' = [step |-> "write"]
    /\ files' = write_outputs(files, args, main_rows, main_assets, main_summary)
    /\ pc' = "done"
    /\ ret' = Returned(Int(0))
    /\ UNCHANGED <<op, http, cookies, ACTIVE_ASSET_ENDPOINTS, args, verify,
                   normalized_clubs, main_rows, main_assets, main_summary,
                   futures, club_index, addVars>>

NextMain ==
    \/ MainStart
    \/ MainProbe
    \/ MainAuth
    \/ MainGather
    \/ MainRefine
    \/ MainExtra
    \/ MainLoop
    \/ MainSubmit
    \/ WorkerRun
    \/ MainCollect
    \/ MainWrite

SpecMain == InitCommon /\ [][NextMain]_vars

-----------------------------------------------------------------------------
(* C13 *)

\* the step that builds the session from the environment and the cookie file
SessionCreated == pc = "start" /\ pc' = "probe"

\* the authentication step called attempt_login
LoginAttempted == pc = "auth" /\ pc' = "gather" /\ arg'.login

C13_Step ==
    /\ SessionCreated =>
           LET f == load_cookies_from_file(arg'.file)
           IN  /\ args'.cookies_file /\ f.sid # "" /\ arg'.ENV_SESSIONID # ""
                       => cookies'.sessionid = f.sid
               /\ args'.cookies_file /\ f.csrft # "" /\ arg'.ENV_CSRFTOKEN # ""
                       => cookies'.csrftoken = f.csrft
               /\ cookies'.sessionid = ""
                       <=> arg'.ENV_SESSIONID = "" /\ (args'.cookies_file => f.sid = "")
    /\ LoginAttempted =>
           cookies.sessionid = "" /\ arg'.ENV_USER # "" /\ arg'.ENV_PASS # ""

\* C13: when both the cookie file and the environment supply a session id
\* or a CSRF token, the session's cookies carry the cookie file's values;
\* the session has no session id exactly when neither source yields one,
\* and login is attempted only on a session without a session id and with
\* both a username and a password configured.
C13_CookieFileFirst == [][C13_Step]_vars

-----------------------------------------------------------------------------
(* C14 *)

\* a run of main is under way or has ended; a run that is no dry run
Running == op = "main"

RealRun == Running /\ ~args.dry_run

\* main has returned this exit code
ExitCode(n) == pc = "done" /\ ~ret.raised /\ ret.val.t = "int" /\ ret.val.n = n

\* an exception has left main
MainRaised == pc = "done" /\ ret.raised

\* the run has sent nothing but requests for the service root
OnlyRootRequests == \A i \in 1..Len(http) : http[i].req.url = ROOT_PATH

\* past the authentication gate
PastAuth == pc \notin {"start", "probe", "auth"}

\* C14: a run whose session holds no sessionid cookie while login fallback
\* is disabled returns 2 before area discovery (no listing request, no
\* per-area fetch, no output file), and no other run is aborted: every
\* other run that ends has written its outputs and returned 0.
C14_OnlyAbortIsExitTwo ==
    RealRun /\ PastAuth =>
        /\ args.no_login_fallback /\ cookies.sessionid = ""
               => /\ ExitCode(2)
                  /\ OnlyRootRequests
                  /\ normalized_clubs = <<>>
                  /\ files = {}
        /\ pc = "done" /\ ~ExitCode(2) => ExitCode(0) /\ arg.step = "write"

-----------------------------------------------------------------------------
(* C15 *)

\* how many requests of the run are login POSTs
RECURSIVE CountPosts(_)
CountPosts(reqs) ==
    IF reqs = <<>> THEN 0
    ELSE (IF Head(reqs).req.method = "POST" THEN 1 ELSE 0) + CountPosts(Tail(reqs))

\* the run has asked for the area listing
ListingRequested == \E i \in 1..Len(http) : http[i].req.url = MYPROFILE_URL

\* authentication has ended and the session holds no sessionid cookie
NoSessionAfterAuth == RealRun /\ PastAuth /\ cookies.sessionid = ""

\* As stated: whenever authentication ends without a session cookie, the
\* run ends there with a non-zero exit code.
C15_Original ==
    NoSessionAfterAuth => pc = "done" /\ ~ret.raised /\ ret.val.t = "int" /\ ret.val.n # 0

\* C15: when authentication ends without a session cookie, the run returns
\* 2 at once exactly when login fallback is disabled; otherwise (the login
\* failed, or no username and password are configured) it goes on
\* unauthenticated to area discovery and never returns a non-zero code.
\* Login is attempted at most once: one POST per user field, no retry.
C15_ExitTwoOnlyWithoutFallback ==
    /\ NoSessionAfterAuth =>
           IF args.no_login_fallback
           THEN ExitCode(2) /\ CountPosts(http) = 0
           ELSE (pc = "gather" \/ ListingRequested) /\ ~ExitCode(2)
    /\ Running => CountPosts(http) <= Len(LoginFields)
    /\ pc = "done" /\ ~ret.raised /\ Running => ExitCode(0) \/ ExitCode(2)

\* a run whose login failed has written its outputs and returned 0
C15_Witness ==
    /\ NoSessionAfterAuth
    /\ CountPosts(http) = Len(LoginFields)
    /\ ExitCode(0)
    /\ files # {}

-----------------------------------------------------------------------------
(* C16 *)

\* workers have been submitted
ParallelMode == Running /\ futures # <<>>

\* the identifier of the i-th area
ClubId(i) == Get(normalized_clubs[i], "huntarea_id", Null)

\* the part of a row list that belongs to the i-th area
OfArea(list, i) == SelectSeq(list, LAMBDA row : row.huntarea_id = ClubId(i))

\* the entries of the summary for the i-th area
SummaryOfArea(i) == SelectSeq(main_summary, LAMBDA e : e.id = ClubId(i))

\* the i-th worker's result is all the aggregate holds for its area
Included(i) ==
    LET val == futures[i].result.val
    IN  /\ OfArea(main_rows, i) = val.rows
        /\ OfArea(main_assets, i) = val.assets
        /\ SummaryOfArea(i) = AppendSummary(<<>>, val.summary)

\* the aggregate holds nothing for the i-th area
Excluded(i) ==
    /\ OfArea(main_rows, i) = <<>>
    /\ OfArea(main_assets, i) = <<>>
    /\ SummaryOfArea(i) = <<>>

\* the files --format asks for hold the aggregate
OutputsWritten ==
    /\ args.format \in {"all", "csv"} =>
           \E f \in files : f.path = OUT_DETAILED_CSV /\ f.content.rows = main_rows
    /\ args.format \in {"all", "json"} =>
           \E f \in files : f.path = OUT_JSON /\ f.content.hunt_areas = main_summary

\* C16: in parallel mode no exception of a worker leaves main; once a
\* worker's result is collected the aggregate holds nothing for its area if
\* the worker raised, and its rows, assets and summary entry otherwise; the
\* run ends only with every worker run and collected, the outputs written
\* and exit code 0.
C16_WorkerFailureContained ==
    ParallelMode =>
        /\ ~MainRaised
        /\ \A i \in 1..Len(futures) :
               futures[i].state = "collected" =>
                   IF futures[i].result.raised THEN Excluded(i) ELSE Included(i)
        /\ pc = "done" =>
               /\ ExitCode(0)
               /\ Len(futures) = Len(normalized_clubs)
               /\ \A i \in 1..Len(futures) : futures[i].state = "collected"
               /\ OutputsWritten

\* a run has ended with one worker that raised and a sibling whose rows
\* are in the written outputs
C16_Witness ==
    /\ ParallelMode
    /\ pc = "done"
    /\ OutputsWritten
    /\ \E i, j \in 1..Len(futures) :
           /\ futures[i].result.raised
           /\ ~futures[j].result.raised
           /\ OfArea(main_rows, j) # <<>>

-----------------------------------------------------------------------------
(* C17 *)

\* a per-area request for the i-th area has been sent
Fetched(i) ==
    \E k \in 1..Len(http) :
        http[k].req.method = "GET" /\ http[k].req.id = ClubId(i)

\* process_hunt_area raised for the i-th area
AreaRaised(i) ==
    IF futures = <<>>
    THEN MainRaised /\ arg.step = "area" /\ arg.index = i
    ELSE i <= Len(futures) /\ futures[i].result.raised

\* the written outputs hold rows and a summary entry of the i-th area
InOutputs(i) ==
    /\ args.format \in {"all", "csv"} =>
           \E f \in files : f.path = OUT_DETAILED_CSV /\ OfArea(f.content.rows, i) # <<>>
    /\ args.format \in {"all", "json"} =>
           \E f \in files :
               /\ f.path = OUT_JSON
               /\ \E k \in 1..Len(f.content.hunt_areas) :
                      f.content.hunt_areas[k].id = ClubId(i)

\* C17: in either mode, when a run that discovered areas has ended, every
\* area with an identifier has been processed, and every such area whose
\* own processing did not raise has its rows and its summary entry in the
\* written outputs, whatever happened to the other areas.
C17_AreaFailureIsolated ==
    Running /\ pc = "done" =>
        \A i \in 1..Len(normalized_clubs) :
            ClubId(i) # Null =>
                /\ Fetched(i)
                /\ ~AreaRaised(i) => InOutputs(i)

-----------------------------------------------------------------------------
(* C18 *)

\* the step of a worker that fetched the assets of its area
WorkerFetchedAssets ==
    /\ arg'.step = "worker"
    /\ args.include_assets
    /\ ~futures'[arg'.index].result.raised
    /\ http' # http

\* the last n requests of the log
LastRequests(log, n) == SubSeq(log, Len(log) - n + 1, Len(log))

C18_Step ==
    /\ futures # <<>> \/ futures' # <<>> =>
           ACTIVE_ASSET_ENDPOINTS' = ACTIVE_ASSET_ENDPOINTS
    /\ WorkerFetchedAssets =>
           LET n == Len(ACTIVE_ASSET_ENDPOINTS)
               sent == LastRequests(http', n)
           IN  \A k \in 1..n : sent[k].req.url = ACTIVE_ASSET_ENDPOINTS[k].url

\* C18: no step writes the active asset endpoint list once a worker has
\* been submitted, nor does the submission itself: refinement and the extra
\* endpoints come before the first submission, and every worker requests
\* exactly the endpoints of that one list.
C18_EndpointsFrozenBeforeDispatch == [][C18_Step]_vars

\* two workers have fetched assets from a list that refinement narrowed and
\* --assets-extra extended
C18_Witness ==
    /\ ParallelMode
    /\ args.include_assets /\ args.dynamic_assets /\ args.assets_extra # <<>>
    /\ Len(ACTIVE_ASSET_ENDPOINTS) < Len(ASSET_ENDPOINT_CANDIDATES)
    /\ ACTIVE_ASSET_ENDPOINTS[Len(ACTIVE_ASSET_ENDPOINTS)].atype = "x"
    /\ \E i, j \in 1..Len(futures) :
           /\ i # j
           /\ \A k \in {i, j} :
                  /\ futures[k].state # "running"
                  /\ ~futures[k].result.raised
                  /\ futures[k].result.val.assets # <<>>

-----------------------------------------------------------------------------
(* C19 *)

\* the areas are processed by the for loop, not by workers
SequentialMode == Running /\ futures = <<>>

\* the place in discovery order of the area with this identifier
AreaIndex(hid) == CHOOSE i \in 1..Len(normalized_clubs) : ClubId(i) = hid

\* C19: in sequential mode the summary lists the areas in discovery order,
\* the row list holds every row of an area before any row of an area
\* discovered later, and the files of a run that ends hold these lists.
C19_SequentialOrderPreserved ==
    SequentialMode =>
        /\ \A p, q \in 1..Len(main_summary) :
               p < q => AreaIndex(main_summary[p].id) < AreaIndex(main_summary[q].id)
        /\ \A p, q \in 1..Len(main_rows) :
               p < q => AreaIndex(main_rows[p].huntarea_id)
                            <= AreaIndex(main_rows[q].huntarea_id)
        /\ ExitCode(0) /\ RealRun => OutputsWritten

\* a sequential run has written a summary of two areas and rows of both
C19_Witness ==
    /\ SequentialMode
    /\ ExitCode(0)
    /\ OutputsWritten
    /\ Len(main_summary) = 2
    /\ OfArea(main_rows, 1) # <<>>
    /\ OfArea(main_rows, 2) # <<>>

-----------------------------------------------------------------------------
(* C20 *)

\* the probe failed with a TLS error: requests raises its SSLError for a
\* failed handshake or a certificate that does not verify
TlsFailure(o) == o.kind = "raise" /\ o.name = SSLErrorName

\* the step that probes the service root
Probed == pc = "probe" /\ pc' = "auth"

\* a step after the probe
AfterProbe == pc \notin {"start", "probe"}

C20_Step ==
    /\ Probed => (verify' = FALSE <=> TlsFailure(arg'.probe))
    /\ AfterProbe =>
           /\ verify' = verify
           /\ \A k \in (Len(http) + 1)..Len(http') : http'[k].verify = verify
           /\ \A i \in 1..Len(futures') : futures'[i].session.verify = verify

\* C20: the probe step disables certificate verification exactly when the
\* probe failed with a TLS error; after the probe the setting never
\* changes, and every later request of the run, those of the sessions
\* cloned for the workers included, is sent with it.
C20_VerifyOffOnlyAfterTlsFailure == [][C20_Step]_vars

-----------------------------------------------------------------------------
(* The bulk-add tool: post_share (add_members.py 186-210) and the older     *)
(* script's function of the same name (add_hunt_members.py 100-130).        *)
(* Durations are in milliseconds; a base back-off is a non-negative number. *)

API_SHARE_URL == "/api/v2/huntarea/share/"

RETRIABLE_STATUSES == {429, 500, 502, 503, 504, 522}

\* session.post(API_SHARE_URL, data={"email", "huntarea_id", "rank"}, timeout=15)
ShareReq(email, huntarea_id, role) ==
    [method |-> "POST", url |-> API_SHARE_URL, email |-> email,
     huntarea_id |-> huntarea_id, rank |-> role]

(* The outcome of one POST: the transport raised an exception with a text,  *)
(* or returned a response with a status, a Content-Type that starts with    *)
(* application/json or does not, and a text that parses as JSON or does not *)
ShareOutcome(kind, status, json_ctype, parses, text) ==
    [kind |-> kind, status |-> status, json_ctype |-> json_ctype,
     parses |-> parses, text |-> text]

\* resp.json() of a text that parses: the document, here an object holding
\* the text
Parsed(text) == D(<<KV("detail", Str(text))>>)

\* the body add_members.post_share keeps: resp.json(), resp.text when the
\* parse raises or the type is not JSON
share_body(o) ==
    IF o.json_ctype /\ o.parses THEN Parsed(o.text) ELSE Str(o.text)

ShareResult(email, huntarea_id, role, status_code, response) ==
    [email |-> email, huntarea_id |-> huntarea_id, role |-> role,
     status_code |-> status_code, response |-> response]

ErrorStatus == Str(<<"e", "r", "r", "o", "r">>)

MaxRetriesExhausted ==
    Str(<<"M", "a", "x", " ", "r", "e", "t", "r", "i", "e", "s", " ",
          "e", "x", "h", "a", "u", "s", "t", "e", "d">>)

\* 2 ** attempt
RECURSIVE Pow2(_)
Pow2(n) == IF n = 0 THEN 1 ELSE 2 * Pow2(n - 1)

\* exponential_sleep(attempt, base): time.sleep(base * (2 ** attempt))
exponential_sleep(sleeps, attempt, base) == Append(sleeps, base * Pow2(attempt))

\* if resp.status_code < 400 or resp.status_code not in RETRIABLE_STATUSES
ReturnsResult(status) == status < 400 \/ status \notin RETRIABLE_STATUSES

\* str(last_exc) if last_exc else "Max retries exhausted"; last_exc is
\* Null or the text of the exception caught last
Exhausted_NoText(last_exc) == MaxRetriesExhausted

Exhausted(last_exc) == IF last_exc = Null THEN MaxRetriesExhausted ELSE last_exc

\* the state a call starts from: nothing sent, no sleep, last_exc = None
CallStart == [http |-> <<>>, slept |-> <<>>, last_exc |-> Null, val |-> Null]

(* for attempt in range(retries + 1): st holds the requests sent, the       *)
(* sleeps taken and last_exc; os[attempt + 1] is the outcome of the POST of *)
(* that attempt                                                             *)
RECURSIVE PostShareLoop(_, _, _, _, _, _, _, _)
PostShareLoop(attempt, retries, backoff, os, email, huntarea_id, role, st) ==
    IF attempt > retries
    THEN [st EXCEPT !.val = ShareResult(email, huntarea_id, role, ErrorStatus,
                                        Exhausted(st.last_exc))]
    ELSE LET o == os[attempt + 1]
             sent == [st EXCEPT !.http = Append(st.http, ShareReq(email, huntarea_id, role))]
             naps == exponential_sleep(st.slept, attempt, backoff)
         IN  IF o.kind = "raise"
             THEN PostShareLoop(attempt + 1, retries, backoff, os, email, huntarea_id, role,
                      [sent EXCEPT !.last_exc = Str(o.text), !.slept = naps])
             ELSE IF ReturnsResult(o.status)
             THEN [sent EXCEPT !.val = ShareResult(email, huntarea_id, role,
                                                   Int(o.status), share_body(o))]
             ELSE PostShareLoop(attempt + 1, retries, backoff, os, email, huntarea_id, role,
                      [sent EXCEPT !.slept = naps])

post_share(os, email, huntarea_id, role, retries, backoff) ==
    PostShareLoop(0, retries, backoff, os, email, huntarea_id, role, CallStart)

(* add_hunt_members.py: the same loop with module constants; resp.json()    *)
(* is called inside the try without a guard of its own, and a result is     *)
(* returned after the delay between calls                                   *)
RETRIES == 3

BASE_BACKOFF == 1000

DELAY_BETWEEN_CALLS == 250

\* str(e) of the JSONDecodeError resp.json() raises
JsonErrorText == Str(<<"E", "x", "p", "e", "c", "t", "i", "n", "g", " ",
                       "v", "a", "l", "u", "e">>)

RECURSIVE ImporterLoop(_, _, _, _, _, _)
ImporterLoop(attempt, os, email, huntarea_id, role, st) ==
    IF attempt > RETRIES
    THEN [st EXCEPT !.val = ShareResult(email, huntarea_id, role, ErrorStatus,
                                        Exhausted(st.last_exc))]
    ELSE LET o == os[attempt + 1]
             sent == [st EXCEPT !.http = Append(st.http, ShareReq(email, huntarea_id, role))]
             naps == Append(st.slept, BASE_BACKOFF * Pow2(attempt))
         IN  IF o.kind = "raise"
             THEN ImporterLoop(attempt + 1, os, email, huntarea_id, role,
                      [sent EXCEPT !.last_exc = Str(o.text), !.slept = naps])
             ELSE IF o.json_ctype /\ ~o.parses
             THEN ImporterLoop(attempt + 1, os, email, huntarea_id, role,
                      [sent EXCEPT !.last_exc = JsonErrorText, !.slept = naps])
             ELSE IF ReturnsResult(o.status)
             THEN [sent EXCEPT !.slept = Append(st.slept, DELAY_BETWEEN_CALLS),
                               !.val = ShareResult(email, huntarea_id, role,
                                                   Int(o.status), share_body(o))]
             ELSE ImporterLoop(attempt + 1, os, email, huntarea_id, role,
                      [sent EXCEPT !.slept = naps])

importer_post_share(os, email, huntarea_id, role) ==
    ImporterLoop(0, os, email, huntarea_id, role, CallStart)

-----------------------------------------------------------------------------
(* post_share: inputs and actions                                           *)

\* the largest --retries drawn
MaxRetries == 2

\* an accepted share, a 200 whose JSON type comes with an empty text, a
\* refusal, a 501, two retriable statuses, a timeout and an exception
\* without text
ShareOutcomes ==
    {ShareOutcome("resp", 200, TRUE, TRUE, <<"o", "k">>),
     ShareOutcome("resp", 200, TRUE, FALSE, <<>>),
     ShareOutcome("resp", 404, FALSE, FALSE, <<"n", "o">>),
     ShareOutcome("resp", 501, FALSE, FALSE, <<>>),
     ShareOutcome("resp", 429, TRUE, TRUE, <<"s", "l", "o", "w">>),
     ShareOutcome("resp", 503, FALSE, FALSE, <<"b", "u", "s", "y">>),
     ShareOutcome("raise", 0, FALSE, FALSE, <<"t", "i", "m", "e", "d">>),
     ShareOutcome("raise", 0, FALSE, FALSE, <<>>)}

\* --backoff, in milliseconds
Backoffs == {0, 1000}

PlanEmail == "a@example.com"

PlanArea == "101"

PlanRole == "member"

PostShare ==
    /\ op = "none"
    /\ \E retries \in 0..MaxRetries, backoff \in Backoffs :
           \E os \in [1..(retries + 1) -> ShareOutcomes] :
               LET r == post_share(os, PlanEmail, PlanArea, PlanRole, retries, backoff)
               IN  /\ op' = "post_share"
                   /\ arg' = [retries |-> retries, backoff |-> backoff, outcomes |-> os]
                   /\ http' = r.http
                   /\ slept' = r.slept
                   /\ ret' = Returned(r.val)
    /\ UNCHANGED <<cookies, ACTIVE_ASSET_ENDPOINTS, files, mainVars, plans,
                   share_results>>

ImporterPostShare ==
    /\ op = "none"
    /\ \E os \in [1..(RETRIES + 1) -> ShareOutcomes] :
           LET r == importer_post_share(os, PlanEmail, PlanArea, PlanRole)
           IN  /\ op' = "importer_post_share"
               /\ arg' = [retries |-> RETRIES, backoff |-> BASE_BACKOFF, outcomes |-> os]
               /\ http' = r.http
               /\ slept' = r.slept
               /\ ret' = Returned(r.val)
    /\ UNCHANGED <<cookies, ACTIVE_ASSET_ENDPOINTS, files, mainVars, plans,
                   share_results>>

NextShare == PostShare \/ ImporterPostShare

SpecShare == InitCommon /\ [][NextShare]_vars

-----------------------------------------------------------------------------
(* C22: post_share sends at most retries+1 POSTs, all to the share          *)
(* endpoint; an attempt is followed by another only when its POST raised or *)
(* answered with a retriable status, after a sleep of base*2^attempt; the   *)
(* first answer whose status is below 400 or not retriable ends the call:   *)
(* its status is the result's and no POST follows it.                       *)

ShareCalled == op \in {"post_share", "importer_post_share"}

\* the POST of this attempt raised, or answered with a retriable status
Retriable(o) == o.kind = "raise" \/ o.status \in RETRIABLE_STATUSES

\* the attempts whose POST was answered with a status that ends the call
Final(os) ==
    {i \in DOMAIN os :
        os[i].kind = "resp" /\ (os[i].status < 400 \/ os[i].status \notin RETRIABLE_STATUSES)}

\* the least member of a non-empty set of numbers
Least(S) == CHOOSE i \in S : \A j \in S : i <= j

C22_BoundedRetries ==
    ShareCalled =>
        LET os == arg.outcomes
            n == Len(http)
        IN  /\ n <= arg.retries + 1
            /\ \A i \in 1..n : http[i].method = "POST" /\ http[i].url = API_SHARE_URL
            /\ \A i \in 1..(n - 1) :
                   /\ Retriable(os[i])
                   /\ slept[i] = arg.backoff * Pow2(i - 1)
            /\ Final(os) # {} =>
                   /\ n = Least(Final(os))
                   /\ ret.val.status_code = Int(os[n].status)
            /\ Final(os) = {} => n = arg.retries + 1

-----------------------------------------------------------------------------
(* C30: when every one of the retries+1 attempts raised or was answered     *)
(* with a retriable status, the result's status_code is "error" and its     *)
(* response is the text of the exception raised last by any attempt, or     *)
(* "Max retries exhausted" when none raised; the status and body of the     *)
(* last answer are not in the result.                                       *)

\* the attempt raised: session.post did, or (older script) resp.json() did
AttemptRaised(o) ==
    \/ o.kind = "raise"
    \/ op = "importer_post_share" /\ o.json_ctype /\ ~o.parses

\* str(e) of the exception the attempt raised
RaisedText(o) == IF o.kind = "raise" THEN Str(o.text) ELSE JsonErrorText

AllRetriable(os) ==
    \A i \in DOMAIN os : AttemptRaised(os[i]) \/ os[i].status \in RETRIABLE_STATUSES

\* the greatest member of a non-empty set of numbers
Greatest(S) == CHOOSE i \in S : \A j \in S : j <= i

C30_ExhaustedResultDropsLastResponse ==
    (ShareCalled /\ AllRetriable(arg.outcomes)) =>
        LET os == arg.outcomes
            raisers == {i \in DOMAIN os : AttemptRaised(os[i])}
        IN  /\ Len(http) = arg.retries + 1
            /\ ret.val.status_code = ErrorStatus
            /\ ret.val.response =
                   IF raisers = {} THEN MaxRetriesExhausted
                   ELSE RaisedText(os[Greatest(raisers)])

\* an exception on the first attempt, a 503 on the last
C30_Witness ==
    /\ op = "post_share"
    /\ AllRetriable(arg.outcomes)
    /\ arg.retries >= 1
    /\ arg.outcomes[1].kind = "raise"
    /\ arg.outcomes[1].text # <<>>
    /\ \A i \in 2..Len(arg.outcomes) : arg.outcomes[i].kind = "resp"
    /\ ret.val.response = Str(arg.outcomes[1].text)

-----------------------------------------------------------------------------
(* The bulk-add tool: main (add_members.py 439-549), step by step.  op is   *)
(* "add_members" once a run has started; pc, args, verify, cookies, http,   *)
(* files and ret are used as in the exporter's main.                        *)

\* load_cookies_file: two keys per cookie; (None, None) when anything raises
load_cookies_file(data) ==
    IF data.t = "unreadable"
    THEN [sid |-> "", csrft |-> ""]
    ELSE [sid |-> OrS(data.sessionid, data.session_id),
          csrft |-> OrS(data.csrftoken, data.csrf)]

\* lines 445-453: sessionid = sidf or sessionid; create_session
add_credentials(ENV_SESSIONID, ENV_CSRFTOKEN, cookies_file, data) ==
    LET f == load_cookies_file(data)
    IN  IF cookies_file
        THEN [sessionid |-> OrS(f.sid, ENV_SESSIONID),
              csrftoken |-> OrS(f.csrft, ENV_CSRFTOKEN)]
        ELSE [sessionid |-> ENV_SESSIONID, csrftoken |-> ENV_CSRFTOKEN]

(* safe_load_single_column: a CSV file is the sequence of the first cells   *)
(* of its non-empty rows (<<>> for a file that is missing); cells that are  *)
(* blank or name the column are skipped                                     *)
RECURSIVE safe_load_single_column(_, _)
safe_load_single_column(cells, header_names) ==
    IF cells = <<>> THEN <<>>
    ELSE LET cell == strip(Head(cells))
             rest == safe_load_single_column(Tail(cells), header_names)
         IN  IF cell = <<>> \/ lower(cell) \in {lower(h) : h \in header_names}
             THEN rest
             ELSE <<cell>> \o rest

\* a plan
Plan(role, ha, em) == [role |-> role, huntarea_id |-> ha, email |-> em]

RECURSIVE PlansOfRole(_, _, _)
PlansOfRole(role, huntareas, emails) ==
    IF huntareas = <<>> THEN <<>>
    ELSE [i \in 1..Len(emails) |-> Plan(role, Head(huntareas), emails[i])]
         \o PlansOfRole(role, Tail(huntareas), emails)

\* plan_additions: for role, for huntarea, for email; the roles in the
\* order of the dict main builds
plan_additions(members, admins, viewers, huntareas) ==
    PlansOfRole("member", huntareas, members)
    \o PlansOfRole("admin", huntareas, admins)
    \o PlansOfRole("view", huntareas, viewers)

\* the column of a role that is not in args.roles is emptied
RoleColumn(role, a, cells, header_names) ==
    IF role \in a.roles THEN safe_load_single_column(cells, header_names) ELSE <<>>

EmailHeader == <<"e", "m", "a", "i", "l">>

IdHeader == <<"i", "d">>

HuntareaIdHeader == <<"h", "u", "n", "t", "a", "r", "e", "a", "_", "i", "d">>

\* lines 509-525 on the four CSV files of a run
plans_of(a, csv) ==
    plan_additions(
        RoleColumn("member", a, csv.members, {EmailHeader, <<"m", "e", "m", "b", "e", "r", "_">> \o EmailHeader}),
        RoleColumn("admin", a, csv.admins, {EmailHeader, <<"a", "d", "m", "i", "n", "_">> \o EmailHeader}),
        RoleColumn("view", a, csv.viewers, {EmailHeader, <<"v", "i", "e", "w", "_">> \o EmailHeader}),
        safe_load_single_column(csv.huntareas, {HuntareaIdHeader, IdHeader}))

OUT_RESULTS_CSV == "members_added_results_{ts}.csv"

OUT_VERIFICATION_CSV == "members_verification_{ts}.csv"

write_results_csv(fs, rows, out_path) == WriteFile(fs, out_path, [rows |-> rows])

write_verification_csv(fs, rows, out_path) == WriteFile(fs, out_path, [rows |-> rows])

(* verify_additions: a row of the earlier results file is its email, area   *)
(* and role, lower-cased and stripped by the reader, and whether its        *)
(* status_code is a 2xx number; only such rows are looked up                *)
ResultRow(email, huntarea_id, role, ok) ==
    [email |-> email, huntarea_id |-> huntarea_id, role |-> role, ok |-> ok]

VerificationStatus(row, members_map) ==
    IF ~HasKey(members_map, Str(row.email)) THEN "missing"
    ELSE IF Get(members_map, Str(row.email), Null) = Str(row.role) THEN "verified"
    ELSE "role_mismatch"

RECURSIVE verify_additions(_, _)
verify_additions(rows, os) ==
    IF rows = <<>> THEN [http |-> <<>>, val |-> <<>>, slept |-> <<>>]
    ELSE LET row == Head(rows) IN
         IF ~row.ok
         THEN LET rest == verify_additions(Tail(rows), os)
              IN  [rest EXCEPT !.val = <<"skipped">> \o rest.val]
         ELSE LET r == fetch_hunt_area_members(os[1][1], os[1][2], Str(row.huntarea_id))
                  rest == verify_additions(Tail(rows), Tail(os))
              IN  [http |-> r.http \o rest.http,
                   val |-> <<VerificationStatus(row, r.val)>> \o rest.val,
                   slept |-> <<200>> \o rest.slept]

\* lines 501-507
verification_exit(statuses) ==
    IF \E i \in 1..Len(statuses) : statuses[i] \in {"missing", "role_mismatch", "error"}
    THEN 1 ELSE 0

-----------------------------------------------------------------------------
(* add_members.main: inputs                                                 *)

\* the four CSV files of a run
CsvFiles(members, admins, viewers, huntareas) ==
    [members |-> members, admins |-> admins, viewers |-> viewers,
     huntareas |-> huntareas]

MemberCells == <<EmailHeader, <<" ", "a", "@", "x">>, <<" ">>>>

AdminCells == <<<<"b", "@", "x">>>>

AreaCellSets ==
    {<<>>, <<HuntareaIdHeader, <<"1", "0", "1">>>>, <<<<"1", "0", "1">>, <<"1", "0", "2">>>>}

\* parse_args with every option at its default, beside the files of the run
AddArgsDefault ==
    [cookies_file |-> FALSE, no_login_fallback |-> FALSE, dry_run |-> FALSE,
     verify_results |-> FALSE, roles |-> {"member"}, retries |-> 1,
     backoff |-> 1000, delay |-> 250,
     csv |-> CsvFiles(MemberCells, AdminCells, <<>>, <<HuntareaIdHeader, <<"1", "0", "1">>>>)]

\* the command lines that vary the credential options, with and without
\* --dry-run
AddCredentialArgs ==
    {[AddArgsDefault EXCEPT !.cookies_file = cf, !.no_login_fallback = nlf,
                            !.dry_run = dr] :
        cf \in BOOLEAN, nlf \in BOOLEAN, dr \in BOOLEAN}

\* the command lines that vary the mode, the roles and the CSV files
AddOtherArgs ==
    {[AddArgsDefault EXCEPT !.dry_run = dr, !.verify_results = vr, !.roles = roles,
                            !.retries = n,
                            !.csv = CsvFiles(m, AdminCells, <<>>, h)] :
        dr \in BOOLEAN, vr \in BOOLEAN, roles \in {{"member"}, {"member", "admin"}},
        n \in {0, 1}, m \in {<<>>, MemberCells}, h \in AreaCellSets}

AddRuns ==
    {Run(a, sid, "", data) :
        a \in AddCredentialArgs, sid \in EnvSessionIds,
        data \in {Unreadable, CookieData("", "file-sid", "", "", "file-csrf", "")}}
    \cup {Run(a, "env-sid", "env-csrf", Unreadable) : a \in AddOtherArgs}

\* the share endpoint accepts, is busy, or the POST times out
AddShareOutcomes ==
    {ShareOutcome("resp", 200, TRUE, TRUE, <<"o", "k">>),
     ShareOutcome("resp", 503, FALSE, FALSE, <<"b", "u", "s", "y">>),
     ShareOutcome("raise", 0, FALSE, FALSE, <<"t", "i", "m", "e", "d">>)}

\* the earlier results file: missing or empty, one failed row, one accepted
\* row, both
ResultFiles ==
    {<<>>,
     <<ResultRow(<<"a", "@", "x">>, <<"1", "0", "1">>, <<"m", "e", "m", "b", "e", "r">>, FALSE)>>,
     <<ResultRow(<<"e">>, <<"1", "0", "1">>, <<"g">>, TRUE)>>,
     <<ResultRow(<<"e">>, <<"1", "0", "1">>, <<"g">>, TRUE),
       ResultRow(<<"a", "@", "x">>, <<"1", "0", "2">>, <<"m", "e", "m", "b", "e", "r">>, TRUE)>>}

\* the answers to the two listings of one verified row
VerifyAnswers ==
    {<<Raised, Raised>>, <<Resp(200, L(<<AMember>>)), Raised>>,
     <<Raised, Resp(200, D(<<KV("objects", L(<<AnInvite>>))>>))>>}

-----------------------------------------------------------------------------
(* add_members.main: actions                                                *)

\* lines 440-453
AddStart ==
    /\ pc = "start"
    /\ op = "none"
    /\ \E run \in AddRuns :
           /\ op' = "add_members"
           /\ args' = run.args
           /\ arg' = [step |-> "start", ENV_SESSIONID |-> run.ENV_SESSIONID,
                      ENV_CSRFTOKEN |-> run.ENV_CSRFTOKEN, file |-> run.file]
           /\ cookies' = add_credentials(run.ENV_SESSIONID, run.ENV_CSRFTOKEN,
                                         run.args.cookies_file, run.file)
    /\ pc' = "probe"
    /\ verify' = TRUE
    /\ UNCHANGED <<http, ret, ACTIVE_ASSET_ENDPOINTS, files, normalized_clubs,
                   main_rows, main_assets, main_summary, futures, club_index,
                   addVars>>

\* lines 455-463
AddProbe ==
    /\ pc = "probe"
    /\ op = "add_members"
    /\ \E o \in RootProbeOutcomes :
           /\ arg' = [step |-> "probe", probe |-> o]
           /\ cookies' = StoreCookies(cookies, o)
           /\ verify' = verify_after_probe(verify, o)
    /\ http' = http \o Sent(<<GetReq(ROOT_PATH, NoId)>>, verify)
    /\ pc' = "auth"
    /\ UNCHANGED <<op, ret, ACTIVE_ASSET_ENDPOINTS, files, args, normalized_clubs,
                   main_rows, main_assets, main_summary, futures, club_index,
                   addVars>>

\* lines 465-477
AddAuth ==
    /\ pc = "auth"
    /\ op = "add_members"
    /\ \/ /\ cookies.sessionid # ""
          /\ arg' = [step |-> "auth", login |-> FALSE]
          /\ pc' = "mode"
          /\ UNCHANGED <<http, ret, cookies>>
       \/ /\ cookies.sessionid = ""
          /\ args.no_login_fallback
          /\ arg' = [step |-> "auth", login |-> FALSE]
          /\ pc' = "done"
          /\ ret' = Returned(Int(2))
          /\ UNCHANGED <<http, cookies>>
       \/ /\ cookies.sessionid = ""
          /\ ~args.no_login_fallback
          /\ \E env \in EnvCredentials, g \in MainLoginGets,
                posts \in [1..2 -> MainLoginPosts] :
                 IF env.user # "" /\ env.pass # ""
                 THEN LET r == attempt_login(cookies, g, posts, env.user, env.pass)
                      IN  /\ arg' = [step |-> "auth", login |-> TRUE,
                                     ENV_USER |-> env.user, ENV_PASS |-> env.pass,
                                     ok |-> r.ok]
                          /\ http' = http \o Sent(r.http, verify)
                          /\ cookies' = r.jar
                          /\ pc' = "mode"
                          /\ UNCHANGED ret
                 ELSE /\ arg' = [step |-> "auth", login |-> FALSE,
                                 ENV_USER |-> env.user, ENV_PASS |-> env.pass]
                      /\ pc' = "mode"
                      /\ UNCHANGED <<http, ret, cookies>>
    /\ UNCHANGED <<op, ACTIVE_ASSET_ENDPOINTS, files, args, verify,
                   normalized_clubs, main_rows, main_assets, main_summary,
                   futures, club_index, addVars>>

\* lines 479-507: verification mode
AddVerify ==
    /\ pc = "mode"
    /\ op = "add_members"
    /\ args.verify_results
    /\ \E rows \in ResultFiles, os \in [1..2 -> VerifyAnswers] :
           LET r == verify_additions(rows, os)
           IN  /\ arg' = [step |-> "verify", rows |-> rows]
               /\ http' = http \o Sent(r.http, verify)
               /\ slept' = slept \o r.slept
               /\ files' = write_verification_csv(files, r.val, OUT_VERIFICATION_CSV)
               /\ ret' = Returned(Int(verification_exit(r.val)))
    /\ pc' = "done"
    /\ UNCHANGED <<op, cookies, ACTIVE_ASSET_ENDPOINTS, args, verify, normalized_clubs,
                   main_rows, main_assets, main_summary, futures, club_index,
                   plans, share_results>>

\* lines 509-535: the CSV files, the plans, the dry-run exit
AddLoad ==
    /\ pc = "mode"
    /\ op = "add_members"
    /\ ~args.verify_results
    /\ arg' = [step |-> "load"]
    /\ IF safe_load_single_column(args.csv.huntareas, {HuntareaIdHeader, IdHeader}) = <<>>
       THEN /\ pc' = "done"
            /\ ret' = Returned(Int(3))
            /\ UNCHANGED plans
       ELSE /\ plans' = plans_of(args, args.csv)
            /\ IF args.dry_run
               THEN pc' = "done" /\ ret' = Returned(Int(0))
               ELSE pc' = "post" /\ UNCHANGED ret
    /\ UNCHANGED <<op, http, cookies, ACTIVE_ASSET_ENDPOINTS, files, args, verify,
                   normalized_clubs, main_rows, main_assets, main_summary,
                   futures, club_index, share_results, slept>>

\* lines 537-541: post_share for the next plan, then the delay
AddPost ==
    /\ pc = "post"
    /\ op = "add_members"
    /\ Len(share_results) < Len(plans)
    /\ \E os \in [1..(args.retries + 1) -> AddShareOutcomes] :
           LET p == plans[Len(share_results) + 1]
               r == post_share(os, p.email, p.huntarea_id, p.role, args.retries, args.backoff)
           IN  /\ arg' = [step |-> "post", outcomes |-> SubSeq(os, 1, Len(r.http))]
               /\ http' = http \o Sent(r.http, verify)
               /\ slept' = slept \o r.slept \o <<args.delay>>
               /\ share_results' = Append(share_results, r.val)
    /\ UNCHANGED <<op, ret, cookies, ACTIVE_ASSET_ENDPOINTS, files, pc, args, verify,
                   normalized_clubs, main_rows, main_assets, main_summary,
                   futures, club_index, plans>>

\* lines 543-549
AddWrite ==
    /\ pc = "post"
    /\ op = "add_members"
    /\ Len(share_results) = Len(plans)
    /\ arg' = [step |-> "write"]
    /\ files' = write_results_csv(files, share_results, OUT_RESULTS_CSV)
    /\ ret' = Returned(Int(0))
    /\ pc' = "done"
    /\ UNCHANGED <<op, http, cookies, ACTIVE_ASSET_ENDPOINTS, args, verify,
                   normalized_clubs, main_rows, main_assets, main_summary,
                   futures, club_index, addVars>>

NextAdd ==
    \/ AddStart
    \/ AddProbe
    \/ AddAuth
    \/ AddVerify
    \/ AddLoad
    \/ AddPost
    \/ AddWrite

SpecAdd == InitCommon /\ [][NextAdd]_vars

-----------------------------------------------------------------------------
(* C21: a run of the bulk-add tool with --dry-run sends no request (no root *)
(* GET, no login exchange, no share POST, no verification fetch), writes no *)
(* file and returns 0.                                                      *)

DryRunOfAdd == op = "add_members" /\ args.dry_run

C21_DryRunWithoutNetwork ==
    DryRunOfAdd =>
        /\ http = <<>>
        /\ files = {}
        /\ pc = "done" => ExitCode(0)

-----------------------------------------------------------------------------
(* C23: in parallel mode every worker has a session object of its own: it   *)
(* is not the parent session and not the session of another worker; at the  *)
(* moment it is made it holds the parent's cookie values, header values and *)
(* verify setting; a cookie stored in a worker's session changes neither    *)
(* the parent's jar nor the session of any other worker.                    *)

\* the submit step made a future
Submitted == Len(futures') = Len(futures) + 1

\* the step was the run of the worker of future i
WorkerRan(i) ==
    /\ i \in 1..Len(futures)
    /\ Len(futures') = Len(futures)
    /\ futures[i].state = "running"
    /\ futures'[i].state = "finished"

C23_Step ==
    /\ \A i \in 1..Len(futures') :
           /\ futures'[i].session.id # ParentSession.id
           /\ \A j \in 1..Len(futures') :
                  i # j => futures'[i].session.id # futures'[j].session.id
    /\ Submitted =>
           LET child == futures'[Len(futures')].session
           IN  /\ child.cookies = cookies
               /\ child.headers = ParentSession.headers
               /\ child.verify = verify
    /\ \A i \in 1..Len(futures) :
           WorkerRan(i) =>
               /\ cookies' = cookies
               /\ \A j \in 1..Len(futures) :
                      j # i => futures'[j].session = futures[j].session

C23_WorkersOwnTheirSessions == [][C23_Step]_vars

\* a worker's session has stored a cookie the parent and a sibling lack
C23_Witness ==
    /\ ParallelMode
    /\ \E i, j \in 1..Len(futures) :
           /\ i # j
           /\ futures[i].state # "running"
           /\ futures[i].session.cookies.csrftoken = "w-csrf"
           /\ cookies.csrftoken # "w-csrf"
           /\ futures[j].session.cookies = cookies

-----------------------------------------------------------------------------
(* C24: process_hunt_area returns a summary record exactly when the         *)
(* descriptor carries an area id.  Without one it sends no request and      *)
(* returns empty rows, empty assets and an empty summary.  With one it      *)
(* always returns a summary holding the id, the name (Area-{id} when the    *)
(* descriptor has none), the number of records of each category and at      *)
(* most ten sample records per category, whatever the fetches answered.     *)

AreaCalled == op = "process_hunt_area"

\* the values the descriptor offers as id: huntarea_id, id, huntarea.id
OfferedIds(club) ==
    <<Get(club, "huntarea_id", Null), Get(club, "id", Null),
      IF Get(club, "huntarea", Null).t = "dict"
      THEN Get(Get(club, "huntarea", Null), "id", Null) ELSE Null>>

HasId(club) == \E i \in 1..3 : OfferedIds(club)[i] # Null

\* the first of them that is not None
DescriptorId(club) ==
    OfferedIds(club)[Least({i \in 1..3 : OfferedIds(club)[i] # Null})]

\* the name the descriptor carries, Null when it has none
DescriptorName(club) ==
    LET inner == IF Get(club, "huntarea", Null).t = "dict"
                 THEN Get(Get(club, "huntarea", Null), "name", Null) ELSE Null
    IN  IF Truthy(inner) THEN inner ELSE Get(club, "name", Null)

\* the records a category brought in: none when its request was refused
\* for an unsafe id
Counted(o) == IF CategoriesFetched THEN NumRecords(o) ELSE 0

IsPrefixUpTo(sample, n) == Len(sample) <= SampleSize /\ Len(sample) = Min(SampleSize, n)

C24_SummaryIffIdResolved ==
    AreaCalled =>
        IF ~HasId(arg.club)
        THEN /\ http = <<>>
             /\ ~ret.raised
             /\ ret.val = AreaResult(<<>>, <<>>, D(<<>>))
        ELSE /\ ~ret.raised
             /\ ret.val.summary # D(<<>>)
             /\ ret.val.summary.id = DescriptorId(arg.club)
             /\ ret.val.summary.name =
                    IF Truthy(DescriptorName(arg.club)) THEN DescriptorName(arg.club)
                    ELSE Str(<<"A", "r", "e", "a", "-">> \o PyStr(DescriptorId(arg.club)))
             /\ ret.val.summary.counts.members = Counted(arg.members)
             /\ ret.val.summary.counts.invites = Counted(arg.invites)
             /\ ret.val.summary.counts.requests = Counted(arg.requests)
             /\ IsPrefixUpTo(ret.val.summary.members_sample, Counted(arg.members))
             /\ IsPrefixUpTo(ret.val.summary.invites_sample, Counted(arg.invites))
             /\ IsPrefixUpTo(ret.val.summary.requests_sample, Counted(arg.requests))

-----------------------------------------------------------------------------
(* C25: every row process_hunt_area returns, for a member, an invite or a   *)
(* request, carries an email without upper-case letter and without leading  *)
(* or trailing whitespace.                                                  *)

AreaReturned == AreaCalled /\ ~ret.raised

\* no leading and no trailing whitespace
IsTrimmed(s) == strip(s) = s

\* no upper-case letter
IsLowerCased(s) == lower(s) = s

C25_RowEmailsLowerTrimmed ==
    AreaReturned =>
        \A i \in 1..Len(ret.val.rows) :
            /\ IsTrimmed(ret.val.rows[i].email.s)
            /\ IsLowerCased(ret.val.rows[i].email.s)

-----------------------------------------------------------------------------
(* _normalize_asset on its own: the values a raw record holds under         *)
(* "public" and "shared"                                                    *)

\* a key the record lacks
Absent == [t |-> "absent"]

\* absent, null, the two booleans, 0 and 1, the empty string, a word
VisibilityValues ==
    {Absent, Null, Bool(TRUE), Bool(FALSE), Int(0), Int(1), Str(<<>>),
     Str(<<"f", "r", "i", "e", "n", "d", "s">>)}

\* the raw record with these values (a key is left out when Absent)
AssetRecord(public, shared) ==
    D(<<KV("id", Int(1))>>
      \o (IF public = Absent THEN <<>> ELSE <<KV("public", public)>>)
      \o (IF shared = Absent THEN <<>> ELSE <<KV("shared", shared)>>))

AssetTypes == {"stand", "camera"}

NormalizeAsset ==
    /\ op = "none"
    /\ \E public \in VisibilityValues, shared \in VisibilityValues, atype \in AssetTypes :
           /\ op' = "_normalize_asset"
           /\ arg' = [public |-> public, shared |-> shared, asset_type |-> atype]
           /\ ret' = Returned(normalize_asset(AssetRecord(public, shared), atype,
                                              Int(1), Str(<<"A">>)))
    /\ UNCHANGED <<http, cookies, ACTIVE_ASSET_ENDPOINTS, files, mainVars, addVars>>

NextAsset == NormalizeAsset

SpecAsset == InitCommon /\ [][NextAsset]_vars

-----------------------------------------------------------------------------
(* C26: the visibility of every row _normalize_asset produces is "public",  *)
(* "private" or the empty string, whatever the raw record holds under       *)
(* "public" and "shared".                                                   *)

AssetNormalized == op = "_normalize_asset"

Visibilities ==
    {Str(<<"p", "u", "b", "l", "i", "c">>), Str(<<"p", "r", "i", "v", "a", "t", "e">>),
     Str(<<>>)}

C26_VisibilityOneOfThree == AssetNormalized => ret.val.visibility \in Visibilities


-----------------------------------------------------------------------------
(* C27: whenever process_hunt_area returns for a descriptor with an id, the *)
(* number of rows equals counts.members + counts.invites + counts.requests  *)
(* of its summary, the rows are the members (status active), then the       *)
(* invites (status invited), then the requests (status requested), and      *)
(* every row carries the id and the name of the summary.                    *)

AreaReturnedWithId == AreaReturned /\ HasId(arg.club)

\* the status of the k-th row when the summary counts m members and
\* n invites
StatusAt(k, m, n) ==
    IF k <= m THEN StatusActive ELSE IF k <= m + n THEN StatusInvited ELSE StatusRequested

C27_RowsMatchCounts ==
    AreaReturnedWithId =>
        LET counts == ret.val.summary.counts
            rows == ret.val.rows
        IN  /\ Len(rows) = counts.members + counts.invites + counts.requests
            /\ \A k \in 1..Len(rows) :
                   /\ rows[k].status = StatusAt(k, counts.members, counts.invites)
                   /\ rows[k].huntarea_id = ret.val.summary.id
                   /\ rows[k].huntarea_name = ret.val.summary.name

\* a returned call with rows of all three categories
C27_Witness ==
    /\ AreaReturnedWithId
    /\ ret.val.summary.counts.members >= 1
    /\ ret.val.summary.counts.invites >= 1
    /\ ret.val.summary.counts.requests >= 1
    /\ Len(ret.val.rows) >= 3


-----------------------------------------------------------------------------
(* C28: after any sequence of refine_active_asset_endpoints calls the       *)
(* active endpoint list is a sub-sequence of the list before the first      *)
(* call.  A call never adds an endpoint and never reorders the kept ones,   *)
(* leaves the list untouched and sends no request when the sample id is     *)
(* unsafe, and never turns a non-empty list into an empty one.              *)

\* sub can be obtained from list by deleting entries
RECURSIVE IsSubSeq(_, _)
IsSubSeq(sub, list) ==
    IF sub = <<>> THEN TRUE
    ELSE IF list = <<>> THEN FALSE
    ELSE IF Head(sub) = Head(list) THEN IsSubSeq(Tail(sub), Tail(list))
    ELSE IsSubSeq(sub, Tail(list))

C28_Step ==
    op' = "refine_active_asset_endpoints" =>
        /\ IsSubSeq(ACTIVE_ASSET_ENDPOINTS', ACTIVE_ASSET_ENDPOINTS)
        /\ IsSubSeq(ACTIVE_ASSET_ENDPOINTS', ASSET_ENDPOINT_CANDIDATES)
        /\ ~is_safe_id(arg'.id) =>
               ACTIVE_ASSET_ENDPOINTS' = ACTIVE_ASSET_ENDPOINTS /\ http' = <<>>
        /\ ACTIVE_ASSET_ENDPOINTS # <<>> => ACTIVE_ASSET_ENDPOINTS' # <<>>

C28_RefinementOnlyNarrows == [][C28_Step]_vars

\* a later call narrowed a list an earlier call had already narrowed
C28_Witness ==
    /\ Refined
    /\ arg.before # ASSET_ENDPOINT_CANDIDATES
    /\ Len(ACTIVE_ASSET_ENDPOINTS) < Len(arg.before)
    /\ Len(http) = Len(arg.before)


-----------------------------------------------------------------------------
(* C29: when no process_hunt_area call raises, parallel mode ends with the  *)
(* same multiset of membership rows, asset rows and summary entries as      *)
(* sequential mode does for the same areas and the same upstream answers,   *)
(* whatever the order in which the workers ran and were collected.  Only    *)
(* the order of the areas may differ: the rows of one area stay together    *)
(* and in their order.                                                      *)

\* every future was submitted, has run and was handed over by as_completed
ParallelCollected ==
    /\ futures # <<>>
    /\ Len(futures) = Len(normalized_clubs)
    /\ \A i \in 1..Len(futures) : futures[i].state = "collected"

NoWorkerRaised == \A i \in 1..Len(futures) : ~futures[i].result.raised

\* the orders in which n areas can be taken
Orders(n) == {p \in [1..n -> 1..n] : \A i, j \in 1..n : p[i] = p[j] => i = j}

\* the aggregate after the results of the first k areas of the order have
\* joined it, each as one block
RECURSIVE AbsorbInOrder(_, _)
AbsorbInOrder(order, k) ==
    IF k = 0 THEN Aggregate(<<>>, <<>>, <<>>)
    ELSE Absorb(AbsorbInOrder(order, k - 1), futures[order[k]].result.val)

\* what the for loop of sequential mode builds from the same results
SequentialAggregate ==
    AbsorbInOrder([i \in 1..Len(futures) |-> i], Len(futures))

\* how often x occurs in s
CountIn(x, s) == Cardinality({i \in 1..Len(s) : s[i] = x})

SameMultiset(s, t) ==
    /\ Len(s) = Len(t)
    /\ \A i \in 1..Len(s) : CountIn(s[i], s) = CountIn(s[i], t)

C29_ParallelEqualsSequentialUpToAreaOrder ==
    (ParallelCollected /\ NoWorkerRaised) =>
        /\ SameMultiset(main_rows, SequentialAggregate.rows)
        /\ SameMultiset(main_assets, SequentialAggregate.assets)
        /\ SameMultiset(main_summary, SequentialAggregate.hunt_areas)
        /\ \E order \in Orders(Len(futures)) :
               Aggregate(main_rows, main_assets, main_summary) =
                   AbsorbInOrder(order, Len(futures))

\* the workers were collected in another order than the areas were
\* submitted, and both areas brought rows
C29_Witness ==
    /\ ParallelCollected
    /\ NoWorkerRaised
    /\ \A i \in 1..Len(futures) : futures[i].result.val.rows # <<>>
    /\ main_rows # SequentialAggregate.rows
    /\ main_summary # SequentialAggregate.hunt_areas

====
